---- MODULE Spec2Model ----
(***************************************************************************)
(* Verification model of the episodic batching core of LabelAnything:      *)
(*   - Substitutor            (experiment/substitution.py)                *)
(*   - VariableBatchSampler   (data/dataset.py)                           *)
(*   - get_example_num_list / get_dataloaders (data/__init__.py)          *)
(*   - rearrange_classes, collate_*, padding, add_noise (data/utils.py)   *)
(*   - LabelAnythingDataset.collate_fn (data/dataset.py)                  *)
(*   - PascalDataset.__getitem__ (data/pascal.py)                         *)
(*                                                                         *)
(* Tensors with a per-example dimension are modelled by the contents of    *)
(* that dimension: position j of a tensor holds a record                   *)
(*   [slot |-> s, extra |-> e]                                             *)
(* meaning "the slice of original example slot s, extended along the       *)
(* annotation dimension by the entries e".  Indices are 0-based as in the  *)
(* source; TLA+ sequences are 1-based, so index i is position i + 1.       *)
(***************************************************************************)
EXTENDS Integers, Sequences, FiniteSets, TLC

VARIABLES
    \* ---- Substitutor: class attribute shared by every instance ----
    torch_keys_to_exchange,
    \* ---- Substitutor: fields of the current instance ----
    batch, ground_truths, example_classes, threshold, num_points,
    substitute, it,
    \* ---- Substitutor: what the caller has observed of the instance ----
    calls, yields, outcome, generated, nsubs,
    \* ---- get_dataloaders / VariableBatchSampler ----
    loader, batch_sizes, num_examples, drop_last, data_len,
    indices, zip_pos, sampled, sampler_state,
    \* ---- rearrange_classes ----
    classes_in, new_classes, collated,
    \* ---- collate_mask, collate_bbox, collate_coords ----
    prompts_in, max_annotations, prompts_out,
    \* ---- get_bboxes, pad_coords_image, pad_coords ----
    pad_in, pad_out,
    \* ---- collate_gt ----
    gt_in, gt_out,
    \* ---- LabelAnythingDataset.collate_fn ----
    fn_in, fn_result,
    \* ---- add_noise ----
    bbox_in, noised,
    \* ---- PascalDataset.__getitem__ ----
    pascal_in, cat_ids, pascal_opts, item_gts,
    \* ---- generate_points_from_errors ----
    err_in, err_out,
    \* ---- DramTestDataset._extract_examples ----
    dram_in, dram_out

subVars == <<torch_keys_to_exchange, batch, ground_truths, example_classes,
             threshold, num_points, substitute, it, calls, yields, outcome,
             generated, nsubs>>
samplerVars == <<loader, batch_sizes, num_examples, drop_last, data_len,
                 indices, zip_pos, sampled, sampler_state>>
classVars == <<classes_in, new_classes, collated>>
promptVars == <<prompts_in, max_annotations, prompts_out>>
padVars == <<pad_in, pad_out>>
gtVars == <<gt_in, gt_out>>
fnVars == <<fn_in, fn_result>>
noiseVars == <<bbox_in, noised>>
pascalVars == <<pascal_in, cat_ids, pascal_opts, item_gts>>
errVars == <<err_in, err_out>>
dramVars == <<dram_in, dram_out>>
moreVars == <<errVars, dramVars>>
itemVars == <<fnVars, noiseVars, pascalVars, moreVars>>
collateVars == <<classVars, promptVars, padVars, gtVars, itemVars>>
vars == <<subVars, samplerVars, collateVars>>

(***************************************************************************)
(* Bounds of the model                                                     *)
(***************************************************************************)
MaxSlots == 3
MaxSubstitutors == 2
MaxStopCalls == 2
NumClasses == 2
MaxEpisodes == 2
MaxClassSlots == 4

(***************************************************************************)
(* Generic helpers                                                         *)
(***************************************************************************)
Range(s) == {s[i] : i \in 1..Len(s)}

\* torch.arange(lo, hi): the integers lo .. hi-1 in increasing order
Arange(lo, hi) == [j \in 1..(IF hi > lo THEN hi - lo ELSE 0) |-> lo + j - 1]

\* rationals as <<numerator, denominator>> with a positive denominator
RatAdd(a, b) == <<a[1] * b[2] + b[1] * a[2], a[2] * b[2]>>
RatGreater(a, b) == a[1] * b[2] > b[1] * a[2]
RatLess(a, b) == a[1] * b[2] < b[1] * a[2]

RECURSIVE RatSum(_)
RatSum(s) == IF Len(s) = 0 THEN <<0, 1>> ELSE RatAdd(Head(s), RatSum(Tail(s)))

RatMean(s) == LET t == RatSum(s) IN <<t[1], t[2] * Len(s)>>

Min(a, b) == IF a < b THEN a ELSE b

\* the elements of a finite set of integers in increasing order
RECURSIVE SetToSeq(_)
SetToSeq(S) ==
    IF S = {} THEN <<>>
    ELSE LET x == CHOOSE y \in S : \A z \in S : y <= z
         IN <<x>> \o SetToSeq(S \ {x})

\* every order in which the elements of a finite set can be listed
RECURSIVE Orders(_)
Orders(S) ==
    IF S = {} THEN {<<>>}
    ELSE UNION {{<<x>> \o p : p \in Orders(S \ {x})} : x \in S}

(***************************************************************************)
(* Substitutor                                                             *)
(***************************************************************************)
None == <<>>

InitialKeysToExchange ==
    <<"prompt_points", "prompt_masks", "prompt_bboxes", "flag_masks",
      "flag_bboxes", "flag_points", "dims">>
torch_keys_to_separate ==
    <<"prompt_points", "prompt_masks", "prompt_bboxes", "flag_masks",
      "flag_bboxes", "flag_points">>
list_keys_to_exchange == <<"classes">>
list_keys_to_separate == <<"classes">>

\* keys of a collated batch that carry a per-example dimension
PromptKeys ==
    {"prompt_points", "flag_points", "prompt_bboxes", "flag_bboxes",
     "prompt_masks", "flag_masks", "dims", "classes"}
ImageKeys == {"images", "embeddings"}
\* the image entries a collated batch can have; {} is a batch with neither
BatchKinds == {{"images"}, {"embeddings"}, {"images", "embeddings"}, {}}

Slice(s) == [slot |-> s, extra |-> <<>>]
Unpermuted(M) == [j \in 1..M |-> Slice(j - 1)]

\* the data dict of a collated batch of M example slots
CollatedBatch(kind, M) ==
    [k \in PromptKeys \cup kind \cup {"flag_gts"} |->
        IF k = "flag_gts" THEN <<Slice(0)>> ELSE Unpermuted(M)]

compute_j_index(class_a, class_b) ==
    <<Cardinality(class_a \cap class_b), Cardinality(class_a \cup class_b)>>

\* the Jaccard indices of the unordered pairs (i, j), i < j, of one episode
RECURSIVE PairwiseJ(_, _, _)
PairwiseJ(elem, i, j) ==
    IF i >= Len(elem) THEN <<>>
    ELSE IF j > Len(elem) THEN PairwiseJ(elem, i + 1, i + 2)
    ELSE <<compute_j_index(elem[i], elem[j])>> \o PairwiseJ(elem, i, j + 1)

mean_pairwise_j_index(elem) == RatMean(PairwiseJ(elem, 1, 2))

\* the mean over the episodes of the batch (torch.mean over the list)
MeanOverEpisodes(classes) ==
    RatMean([e \in 1..Len(classes) |-> mean_pairwise_j_index(classes[e])])

calculate_if_substitute_ge(thr, classes) ==
    IF thr = None THEN TRUE
    ELSE ~RatLess(MeanOverEpisodes(classes), thr)

calculate_if_substitute(thr, classes) ==
    IF thr = None THEN TRUE
    ELSE RatGreater(MeanOverEpisodes(classes), thr)

\* index_tensor of __next__: [it] ++ arange(0, it) ++ arange(it + 1, n)
IndexTensorRotate(i, n) == Arange(i, n) \o Arange(0, i)

IndexTensor(i, n) == <<i>> \o Arange(0, i) \o Arange(i + 1, n)

\* torch.index_select(t, dim=1, index) on the per-example dimension
IndexSelect(t, index) == [j \in 1..Len(index) |-> t[index[j] + 1]]

\* the loop over torch_keys_to_exchange, in list order; a key that the
\* batch lacks raises KeyError and leaves the earlier keys exchanged
RECURSIVE ExchangeKeys(_, _, _)
ExchangeKeys(b, keys, index) ==
    IF Len(keys) = 0 THEN [batch |-> b, raised |-> "none"]
    ELSE IF Head(keys) \notin DOMAIN b THEN [batch |-> b, raised |-> "KeyError"]
    ELSE ExchangeKeys([b EXCEPT ![Head(keys)] = IndexSelect(b[Head(keys)], index)],
                      Tail(keys), index)

divide_query_examples(b, gts) ==
    [input |-> [k \in DOMAIN b |->
                   IF k \in Range(torch_keys_to_separate) \cup Range(list_keys_to_separate)
                   THEN Tail(b[k]) ELSE b[k]],
     gt |-> gts[1]]

\* which branch of lines 208-214 a call takes
NextBranchSubstituteFirst(i, subst, n) ==
    IF ~subst THEN "stop"
    ELSE IF i = 0 THEN "first"
    ELSE IF i = n THEN "stop"
    ELSE "exchange"

NextBranch(i, subst, n) ==
    IF i = 0 THEN "first"
    ELSE IF ~subst THEN "stop"
    ELSE IF i = n THEN "stop"
    ELSE "exchange"

ImageKeyOf(b) ==
    IF "images" \in DOMAIN b THEN "images"
    ELSE IF "embeddings" \in DOMAIN b THEN "embeddings"
    ELSE "none"

NumSlots == Len(ground_truths)
\* the calls of __next__ on the current instance that did not yield
stops == calls - Len(yields)
Alive == nsubs > 0 /\ outcome \notin {"KeyError", "ValueError"}

(***************************************************************************)
(* Substitutor: operations                                                 *)
(***************************************************************************)
SubInit ==
    /\ torch_keys_to_exchange = InitialKeysToExchange
    /\ batch = <<>>
    /\ ground_truths = <<>>
    /\ example_classes = <<>>
    /\ threshold = None
    /\ num_points = 1
    /\ substitute = TRUE
    /\ it = 0
    /\ calls = 0
    /\ yields = <<>>
    /\ outcome = "none"
    /\ generated = FALSE
    /\ nsubs = 0

\* Substitutor.__init__ on a freshly collated batch of M example slots
NewSubstitutor(kind, M, classes, thr, np) ==
    /\ nsubs < MaxSubstitutors
    /\ nsubs > 0 => outcome = "StopIteration"
    /\ batch' = CollatedBatch(kind, M)
    /\ ground_truths' = [j \in 1..M |-> j - 1]
    /\ example_classes' = classes
    /\ threshold' = thr
    /\ num_points' = np
    /\ substitute' = calculate_if_substitute(thr, classes)
    /\ it' = 0
    /\ calls' = 0
    /\ yields' = <<>>
    /\ outcome' = "none"
    /\ generated' = FALSE
    /\ nsubs' = nsubs + 1
    /\ UNCHANGED torch_keys_to_exchange

\* Substitutor.__next__
SubstitutorNext ==
    /\ Alive
    /\ stops < MaxStopCalls
    /\ calls' = calls + 1
    /\ UNCHANGED <<example_classes, threshold, num_points, substitute, nsubs>>
    /\ LET key == ImageKeyOf(batch) IN
       IF key = "none"
       THEN /\ outcome' = "ValueError"
            /\ UNCHANGED <<torch_keys_to_exchange, batch, ground_truths, it,
                           yields, generated>>
       ELSE
         LET keys1 == Append(torch_keys_to_exchange, key)
             n == Len(batch[key])
             branch == NextBranch(it, substitute, n)
             index_tensor == IndexTensor(it, n)
             r == ExchangeKeys(batch, keys1, index_tensor)
             b2 == [k \in DOMAIN r.batch |->
                      IF k \in Range(list_keys_to_exchange)
                      THEN IndexSelect(r.batch[k], index_tensor) ELSE r.batch[k]]
             g2 == IndexSelect(ground_truths, index_tensor)
         IN /\ torch_keys_to_exchange' = keys1
            /\ CASE branch = "first" ->
                     /\ it' = 1
                     /\ yields' = Append(yields, divide_query_examples(batch, ground_truths))
                     /\ outcome' = "yield"
                     /\ generated' = FALSE
                     /\ UNCHANGED <<batch, ground_truths>>
                 [] branch = "stop" ->
                     /\ outcome' = "StopIteration"
                     /\ UNCHANGED <<batch, ground_truths, it, yields, generated>>
                 [] branch = "exchange" /\ r.raised # "none" ->
                     /\ batch' = r.batch
                     /\ outcome' = r.raised
                     /\ UNCHANGED <<ground_truths, it, yields, generated>>
                 [] branch = "exchange" /\ r.raised = "none" ->
                     /\ batch' = b2
                     /\ ground_truths' = g2
                     /\ it' = it + 1
                     /\ yields' = Append(yields, divide_query_examples(b2, g2))
                     /\ outcome' = "yield"
                     /\ generated' = FALSE

\* the new annotation entries of position j: num_points zero points in every
\* slot but the last, which receives the points sampled from the errors of
\* the query just predicted (entry q + 1 for query slot q, 0 for a zero point)
NewPointEntries(j, M, q, np) ==
    [n \in 1..np |-> IF j = M THEN q + 1 ELSE 0]

\* Substitutor.generate_new_points, called by the training loop after a yield
GenerateNewPoints ==
    /\ Alive
    /\ outcome = "yield"
    /\ ~generated
    /\ generated' = TRUE
    /\ batch' =
         IF substitute
         THEN [k \in DOMAIN batch |->
                 IF k \in {"prompt_points", "flag_points"}
                 THEN [j \in 1..Len(batch[k]) |->
                         [batch[k][j] EXCEPT !.extra =
                             @ \o NewPointEntries(j, Len(batch[k]), ground_truths[1], num_points)]]
                 ELSE batch[k]]
         ELSE batch
    /\ UNCHANGED <<torch_keys_to_exchange, ground_truths, example_classes,
                   threshold, num_points, substitute, it, calls, yields,
                   outcome, nsubs>>

\* class sets of the examples of one batch: episodes x slots
ClassSets == (SUBSET (1..NumClasses)) \ {{}}
ClassLists(E, M) == [1..E -> [1..M -> ClassSets]]
Thresholds == {None, <<1, 2>>}

\* the batches of the training process: one episode whose examples all show
\* class 1, or whose examples show classes 1 and 2 in turn
SameClasses(M) == <<[j \in 1..M |-> {1}]>>
AlternatingClasses(M) == <<[j \in 1..M |-> {1 + (j % 2)}]>>
SubstitutionSettings(M) ==
    {<<None, SameClasses(M)>>} \cup
    (IF M >= 2 THEN {<<<<1, 2>>, SameClasses(M)>>, <<<<1, 2>>, AlternatingClasses(M)>>}
     ELSE {})

\* the training loop takes the next batch and builds its Substitutor
TrainBatch ==
    /\ \E kind \in BatchKinds, M \in 1..MaxSlots :
          \E setting \in SubstitutionSettings(M) :
             NewSubstitutor(kind, M, setting[2], setting[1], 1)
    /\ UNCHANGED <<samplerVars, collateVars>>

CallNext == SubstitutorNext /\ UNCHANGED <<samplerVars, collateVars>>

CallGenerateNewPoints == GenerateNewPoints /\ UNCHANGED <<samplerVars, collateVars>>

\* a single construction over a batch of several episodes
ConstructOnce ==
    /\ nsubs = 0
    /\ \E kind \in BatchKinds, M \in 2..MaxSlots, E \in 1..MaxEpisodes,
          thr \in Thresholds :
          /\ E * M <= MaxClassSlots
          /\ \E classes \in ClassLists(E, M) : NewSubstitutor(kind, M, classes, thr, 1)
    /\ UNCHANGED <<samplerVars, collateVars>>

(***************************************************************************)
(* get_example_num_list, get_dataloaders                                   *)
(***************************************************************************)
MaxDatasetLen == 4
MaxBatchSize == 2
MaxNumExamples == 4

get_divisors(n) == SelectSeq(Arange(1, n + 1), LAMBDA i : n % i = 0)

\* the list get_example_num_list draws random.choice from
PossibleTargetExamplesLen(max_num_examples) == Tail(get_divisors(max_num_examples))

\* get_example_num_list without the subtraction of the query image
get_example_num_list_with_query(dataset_len, batch_size, max_num_examples, choice) ==
    LET target_examples_num == batch_size * max_num_examples
        bs == [k \in 1..Len(choice) |-> target_examples_num \div choice[k]]
        en == [k \in 1..Len(choice) |-> choice[k]]
        rem == dataset_len % target_examples_num
    IN IF rem # 0 THEN <<Append(en, rem), Append(bs, 1)>> ELSE <<en, bs>>

\* get_example_num_list with the random.choice results given as `choice`;
\* returns the pair (examples_nums, batch_sizes) in the order of the source
get_example_num_list(dataset_len, batch_size, max_num_examples, choice) ==
    LET target_examples_num == batch_size * max_num_examples
        bs == [k \in 1..Len(choice) |-> target_examples_num \div choice[k]]
        en == [k \in 1..Len(choice) |-> choice[k] - 1]
        rem == dataset_len % target_examples_num
    IN IF rem # 0 THEN <<Append(en, rem), Append(bs, 1)>> ELSE <<en, bs>>

(***************************************************************************)
(* VariableBatchSampler                                                    *)
(***************************************************************************)
MaxPoolLen == 3
MaxListLen == 2
MaxListedSize == 3

\* the orders in which RandomSampler can yield the indices 0 .. n-1
RandomOrdersWithReplacement(n) == [1..n -> 0..(n - 1)]

RandomOrders(n) == Orders(0..(n - 1))

\* the check of VariableBatchSampler.__init__
RejectsBatchSizesNever(bsl) == FALSE

RejectsBatchSizes(bsl) == Len(bsl) = 0

SamplerInit ==
    /\ loader = <<>>
    /\ batch_sizes = <<>>
    /\ num_examples = <<>>
    /\ drop_last = FALSE
    /\ data_len = 0
    /\ indices = <<>>
    /\ zip_pos = 0
    /\ sampled = <<>>
    /\ sampler_state = "none"

\* VariableBatchSampler.__init__
NewSampler(len, bsl, nel, dl) ==
    /\ batch_sizes' = bsl
    /\ num_examples' = nel
    /\ drop_last' = dl
    /\ data_len' = len
    /\ indices' = <<>>
    /\ zip_pos' = 0
    /\ sampled' = <<>>
    /\ sampler_state' = IF RejectsBatchSizes(bsl) THEN "ValueError" ELSE "constructed"

\* a direct construction by a caller
ConstructSampler(len, bsl, nel, dl) ==
    /\ sampler_state = "none"
    /\ loader' = <<>>
    /\ NewSampler(len, bsl, nel, dl)

\* get_dataloaders, for the train (or validation) dataset of length len
GetDataloaders(len, batch_size, max_num_examples) ==
    LET possible == PossibleTargetExamplesLen(max_num_examples)
        batches == len \div (batch_size * max_num_examples)
        args == [dataset_len |-> len, batch_size |-> batch_size,
                 max_num_examples |-> max_num_examples]
    IN /\ sampler_state = "none"
       /\ IF batches > 0 /\ Len(possible) = 0
          THEN \* random.choice of an empty list
               /\ loader' = args
               /\ sampler_state' = "IndexError"
               /\ UNCHANGED <<batch_sizes, num_examples, drop_last, data_len,
                              indices, zip_pos, sampled>>
          ELSE \E choice \in [1..batches -> Range(possible)] :
                 LET returned == get_example_num_list(len, batch_size, max_num_examples, choice)
                     train_batch_sizes == returned[1]
                     train_examples_nums == returned[2]
                 IN /\ loader' = [dataset_len |-> len, batch_size |-> batch_size,
                                   max_num_examples |-> max_num_examples,
                                   examples_nums |-> returned[1],
                                   batch_sizes |-> returned[2]]
                    /\ NewSampler(len, train_batch_sizes, train_examples_nums, FALSE)

\* VariableBatchSampler.__iter__ is called: the RandomSampler iterator is made
SamplerIter(order) ==
    /\ sampler_state = "constructed"
    /\ indices' = order
    /\ zip_pos' = 0
    /\ sampled' = <<>>
    /\ sampler_state' = "iterating"
    /\ UNCHANGED <<loader, batch_sizes, num_examples, drop_last, data_len>>

\* one resumption of the generator of __iter__: up to the next yield, to the
\* end of the zip, or to the StopIteration that next(indices) raises inside
\* the generator, which Python turns into RuntimeError
SamplerNextBatch ==
    /\ sampler_state = "iterating"
    /\ UNCHANGED <<loader, batch_sizes, num_examples, drop_last, data_len>>
    /\ IF zip_pos >= Min(Len(batch_sizes), Len(num_examples))
       THEN /\ sampler_state' = "done"
            /\ UNCHANGED <<indices, zip_pos, sampled>>
       ELSE LET batch_size == batch_sizes[zip_pos + 1]
                n == num_examples[zip_pos + 1]
            IN IF Len(indices) >= batch_size
               THEN /\ sampled' = Append(sampled,
                                    [j \in 1..batch_size |-> <<indices[j], n>>])
                    /\ indices' = SubSeq(indices, batch_size + 1, Len(indices))
                    /\ zip_pos' = zip_pos + 1
                    /\ sampler_state' = "iterating"
               ELSE /\ indices' = <<>>
                    /\ sampler_state' = "RuntimeError"
                    /\ UNCHANGED <<zip_pos, sampled>>

SizeLists == UNION {[1..n -> 1..MaxListedSize] : n \in 0..MaxListLen}
\* the shot counts handed to a directly constructed sampler: entry k is k
ShotList(bsl) == [k \in 1..Len(bsl) |-> k]

BuildDataloader ==
    /\ \E len \in 0..MaxDatasetLen, batch_size \in 1..MaxBatchSize,
          max_num_examples \in 1..MaxNumExamples :
             GetDataloaders(len, batch_size, max_num_examples)
    /\ UNCHANGED <<subVars, collateVars>>

BuildSampler ==
    /\ \E len \in 0..MaxPoolLen, bsl \in SizeLists, dl \in BOOLEAN :
          ConstructSampler(len, bsl, ShotList(bsl), dl)
    /\ UNCHANGED <<subVars, collateVars>>

StartEpoch ==
    /\ \E order \in RandomOrders(data_len) : SamplerIter(order)
    /\ UNCHANGED <<subVars, collateVars>>

NextBatch == SamplerNextBatch /\ UNCHANGED <<subVars, collateVars>>

(***************************************************************************)
(* rearrange_classes                                                       *)
(***************************************************************************)
MaxClassId == 3

\* enumerate(distinct_classes, start): the set is iterated in some order
EnumerateFromZero(order) == [k \in 1..Len(order) |-> <<k - 1, order[k]>>]

Enumerate(order) == [k \in 1..Len(order) |-> <<k, order[k]>>]

\* distinct_classes: the set of values of the per-episode class dicts
DistinctClasses(classes) ==
    UNION {Range(classes[e]) : e \in 1..Len(classes)}

\* rearrange_classes, with the iteration order of the set given as `order`
rearrange_classes(classes, order) ==
    LET en == Enumerate(order)
    IN [val \in Range(order) |-> en[CHOOSE k \in 1..Len(en) : en[k][2] = val][1]]

\* the class dict of an episode: local position -> class identifier,
\* identifiers unique and increasing within the episode
ClassDicts == {SetToSeq(S) : S \in SUBSET (1..MaxClassId)}

\* no prompt tensors are being collated
PromptIdle ==
    /\ prompts_in = <<>>
    /\ max_annotations = 0
    /\ prompts_out = <<>>

\* no annotations are being padded
PadIdle ==
    /\ pad_in = [counts |-> <<>>, k |-> 0]
    /\ pad_out = [fn |-> "none"]

\* no ground truths are being remapped
GtIdle ==
    /\ gt_in = <<>>
    /\ gt_out = <<>>

\* collate_fn is not being called
FnIdle ==
    /\ fn_in = [items |-> <<>>, log_images |-> FALSE, load_embeddings |-> FALSE]
    /\ fn_result = [raised |-> "idle"]

\* add_noise is not being called
NoiseIdle ==
    /\ bbox_in = <<>>
    /\ noised = <<>>

\* no item is being fetched from a PascalDataset
PascalIdle ==
    /\ pascal_in = [image_names |-> <<>>]
    /\ cat_ids = <<>>
    /\ pascal_opts = [load_gts |-> FALSE, load_embeddings |-> FALSE]
    /\ item_gts = <<>>

\* generate_points_from_errors is not being called
ErrIdle ==
    /\ err_in = [num_points |-> 0]
    /\ err_out = [raised |-> "idle"]

\* no DramTestDataset extracts its examples
DramIdle ==
    /\ dram_in = [categories |-> <<>>]
    /\ dram_out = [called |-> FALSE]

MoreIdle == ErrIdle /\ DramIdle

ItemIdle == FnIdle /\ NoiseIdle /\ PascalIdle /\ MoreIdle

\* no batch is being collated
CollateInit ==
    /\ classes_in = <<>>
    /\ new_classes = <<>>
    /\ collated = TRUE
    /\ PromptIdle
    /\ PadIdle
    /\ GtIdle
    /\ ItemIdle

\* a batch of episodes is handed to the collate functions
CollateInputInit ==
    /\ classes_in \in UNION {[1..E -> ClassDicts] : E \in 1..MaxEpisodes}
    /\ new_classes = <<>>
    /\ collated = FALSE
    /\ PromptIdle
    /\ PadIdle
    /\ GtIdle
    /\ ItemIdle

RearrangeClasses ==
    /\ ~collated
    /\ \E order \in Orders(DistinctClasses(classes_in)) :
          new_classes' = rearrange_classes(classes_in, order)
    /\ collated' = TRUE
    /\ UNCHANGED classes_in

BuildClassMap ==
    RearrangeClasses
    /\ UNCHANGED <<subVars, samplerVars, promptVars, padVars, gtVars, itemVars>>

(***************************************************************************)
(* collate_mask, collate_bbox, collate_coords                              *)
(*                                                                         *)
(* A prompt tensor of one episode is a record [shape, at]: shape lists the *)
(* class dimension and, for boxes and points, the annotation dimension     *)
(* (and the points-per-annotation dimension); at is the nested sequence of *)
(* its entries.  The example dimension and the innermost geometric         *)
(* dimensions are copied whole by every function (out[:, ...] = tensor)    *)
(* and are left out.  A data entry is the tuple <<episode, class position, *)
(* annotation, point>> naming the input slice it comes from, or Zero.      *)
(***************************************************************************)
MaxAnnotations == 2
MaxBatchClasses == 4
PointsPerAnnotation == 2

Zero == <<0, 0, 0, 0>>
NoTensor == [none |-> TRUE]
IsNone(t) == "none" \in DOMAIN t

Max(S) == CHOOSE x \in S : \A y \in S : y <= x

\* new_positions = [new_classes[x] - 1 for x in original_classes.values()]
NewPositionsUnshifted(original_classes, classmap) ==
    [i \in 1..Len(original_classes) |-> classmap[original_classes[i]]]

NewPositions(original_classes, classmap) ==
    [i \in 1..Len(original_classes) |-> classmap[original_classes[i]] - 1]

\* the class position whose slice an indexed assignment out[:, positions] = t
\* leaves at channel index ch: the last position that names ch, 0 if none
SourceOf(positions, ch) ==
    LET named == {i \in 1..Len(positions) : positions[i] = ch}
    IN IF named = {} THEN 0 ELSE Max(named)

\* the slices left at their old positions: out[:, :c] = tensor
collate_mask_unarranged(tensor, original_classes, classmap) ==
    LET c_new == Cardinality(DOMAIN classmap)
    IN IF IsNone(tensor)
       THEN [shape |-> <<c_new>>, at |-> [ch \in 1..c_new |-> Zero]]
       ELSE [shape |-> <<c_new>>,
             at |-> [ch \in 1..c_new |->
                       IF ch <= tensor.shape[1] THEN tensor.at[ch] ELSE Zero]]

collate_mask(tensor, original_classes, classmap) ==
    LET c_new == Cardinality(DOMAIN classmap)
        new_positions == NewPositions(original_classes, classmap)
    IN IF IsNone(tensor)
       THEN [shape |-> <<c_new>>, at |-> [ch \in 1..c_new |-> Zero]]
       ELSE [shape |-> <<c_new>>,
             at |-> [ch \in 1..c_new |->
                       LET i == SourceOf(new_positions, ch - 1)
                       IN IF i = 0 THEN Zero ELSE tensor.at[i]]]

\* out[:, new_positions, :n] = t on a tensor filled with `fill`
ScatterAnnotations(t, new_positions, c_new, max_anns, fill) ==
    [ch \in 1..c_new |->
        LET i == SourceOf(new_positions, ch - 1)
        IN [a \in 1..max_anns |->
              IF i # 0 /\ a <= t.shape[2] THEN t.at[i][a] ELSE fill]]

\* the annotation dimension left at the episode's own n
collate_bbox_unpadded(bbox, flag, original_classes, classmap, max_anns) ==
    LET c_new == Cardinality(DOMAIN classmap)
        new_positions == NewPositions(original_classes, classmap)
        n == IF IsNone(bbox) THEN max_anns ELSE bbox.shape[2]
    IN IF IsNone(bbox)
       THEN [bbox |-> [shape |-> <<c_new, max_anns>>,
                        at |-> [ch \in 1..c_new |-> [a \in 1..max_anns |-> Zero]]],
             flag |-> [shape |-> <<c_new, max_anns>>,
                        at |-> [ch \in 1..c_new |-> [a \in 1..max_anns |-> FALSE]]]]
       ELSE [bbox |-> [shape |-> <<c_new, n>>,
                        at |-> ScatterAnnotations(bbox, new_positions, c_new, n, Zero)],
             flag |-> [shape |-> <<c_new, n>>,
                        at |-> ScatterAnnotations(flag, new_positions, c_new, n, FALSE)]]

collate_bbox(bbox, flag, original_classes, classmap, max_anns) ==
    LET c_new == Cardinality(DOMAIN classmap)
        new_positions == NewPositions(original_classes, classmap)
    IN IF IsNone(bbox)
       THEN [bbox |-> [shape |-> <<c_new, max_anns>>,
                        at |-> [ch \in 1..c_new |-> [a \in 1..max_anns |-> Zero]]],
             flag |-> [shape |-> <<c_new, max_anns>>,
                        at |-> [ch \in 1..c_new |-> [a \in 1..max_anns |-> FALSE]]]]
       ELSE [bbox |-> [shape |-> <<c_new, max_anns>>,
                        at |-> ScatterAnnotations(bbox, new_positions, c_new, max_anns, Zero)],
             flag |-> [shape |-> <<c_new, max_anns>>,
                        at |-> ScatterAnnotations(flag, new_positions, c_new, max_anns, FALSE)]]

collate_coords(coords, flag, original_classes, classmap, max_anns, n_points) ==
    LET c_new == Cardinality(DOMAIN classmap)
        new_positions == NewPositions(original_classes, classmap)
        k == IF IsNone(coords) THEN n_points ELSE coords.shape[3]
        zeros == [p \in 1..k |-> Zero]
        falses == [p \in 1..k |-> FALSE]
    IN IF IsNone(coords)
       THEN [coords |-> [shape |-> <<c_new, max_anns, k>>,
                          at |-> [ch \in 1..c_new |-> [a \in 1..max_anns |-> zeros]]],
             flag |-> [shape |-> <<c_new, max_anns, k>>,
                        at |-> [ch \in 1..c_new |-> [a \in 1..max_anns |-> falses]]]]
       ELSE [coords |-> [shape |-> <<c_new, max_anns, k>>,
                          at |-> ScatterAnnotations(coords, new_positions, c_new, max_anns, zeros)],
             flag |-> [shape |-> <<c_new, max_anns, k>>,
                        at |-> ScatterAnnotations(flag, new_positions, c_new, max_anns, falses)]]

\* the prompt tensors an episode brings to the collation: the class at local
\* position i has RealAnnotations(i, n) real annotations in its n slots and
\* annotation a has RealPoints(i, a, k) real points in its k slots; every
\* other slot is padding (zero data, flag False)
RealAnnotations(i, n) == i % (n + 1)
RealPoints(i, a, k) == 1 + ((i + a) % k)

EpisodePrompts(e, classes, n, k) ==
    LET c == Len(classes)
        box_flag(i, a) == a <= RealAnnotations(i, n)
        point_flag(i, a, p) == box_flag(i, a) /\ p <= RealPoints(i, a, k)
    IN IF n = 0
       THEN [mask |-> NoTensor, bbox |-> NoTensor, flag_bbox |-> NoTensor,
             coords |-> NoTensor, flag_coords |-> NoTensor]
       ELSE [mask |-> [shape |-> <<c>>, at |-> [i \in 1..c |-> <<e, i, 0, 0>>]],
             bbox |-> [shape |-> <<c, n>>,
                       at |-> [i \in 1..c |-> [a \in 1..n |->
                                 IF box_flag(i, a) THEN <<e, i, a, 0>> ELSE Zero]]],
             flag_bbox |-> [shape |-> <<c, n>>,
                            at |-> [i \in 1..c |-> [a \in 1..n |-> box_flag(i, a)]]],
             coords |-> [shape |-> <<c, n, k>>,
                         at |-> [i \in 1..c |-> [a \in 1..n |-> [p \in 1..k |->
                                   IF point_flag(i, a, p) THEN <<e, i, a, p>> ELSE Zero]]]],
             flag_coords |-> [shape |-> <<c, n, k>>,
                              at |-> [i \in 1..c |-> [a \in 1..n |-> [p \in 1..k |->
                                        point_flag(i, a, p)]]]]]

\* the annotation dimensions of the episodes of a batch; 0 stands for an
\* episode whose prompt tensors are None
AnnotationDims(E) ==
    {[e \in 1..E |-> 1 + ((e + s) % MaxAnnotations)] : s \in 0..(MaxAnnotations - 1)}
    \cup (IF E >= 2
          THEN {[e \in 1..E |-> IF e = 1 THEN 0 ELSE 1 + (e % MaxAnnotations)]}
          ELSE {})

RECURSIVE TotalClasses(_)
TotalClasses(classes) ==
    IF Len(classes) = 0 THEN 0 ELSE Len(Head(classes)) + TotalClasses(Tail(classes))

PromptBatches ==
    {b \in UNION {[1..E -> ClassDicts] : E \in 1..MaxEpisodes} :
        TotalClasses(b) <= MaxBatchClasses}

\* max(x.size(2) for x in bboxes), over the episodes that have prompt tensors
BatchMaxAnnotations(prompts) ==
    Max({prompts[e].bbox.shape[2] :
            e \in {d \in 1..Len(prompts) : ~IsNone(prompts[d].bbox)}})

\* a batch of episodes with their prompt tensors is handed to the collation
PromptInputInit ==
    /\ classes_in \in PromptBatches
    /\ new_classes = <<>>
    /\ collated = FALSE
    /\ prompts_in \in
          {[e \in 1..Len(classes_in) |->
               EpisodePrompts(e, classes_in[e], dims[e], PointsPerAnnotation)] :
             dims \in AnnotationDims(Len(classes_in))}
    /\ max_annotations = BatchMaxAnnotations(prompts_in)
    /\ prompts_out = <<>>
    /\ PadIdle
    /\ GtIdle
    /\ ItemIdle

\* collate_mask, collate_bbox and collate_coords on every episode of the batch
CollatePromptTensors ==
    /\ collated
    /\ prompts_in # <<>>
    /\ prompts_out = <<>>
    /\ prompts_out' =
          [e \in 1..Len(prompts_in) |->
             LET x == prompts_in[e]
                 b == collate_bbox(x.bbox, x.flag_bbox, classes_in[e], new_classes,
                                   max_annotations)
                 c == collate_coords(x.coords, x.flag_coords, classes_in[e], new_classes,
                                     max_annotations, PointsPerAnnotation)
             IN [mask |-> collate_mask(x.mask, classes_in[e], new_classes),
                 bbox |-> b.bbox, flag_bbox |-> b.flag,
                 coords |-> c.coords, flag_coords |-> c.flag]]
    /\ UNCHANGED <<classVars, prompts_in, max_annotations>>

CollatePrompts ==
    CollatePromptTensors /\ UNCHANGED <<subVars, samplerVars, padVars, gtVars, itemVars>>

(***************************************************************************)
(* get_bboxes, get_coords_per_image (pad_coords_image), pad_coords         *)
(***************************************************************************)
Repeat(x, n) == [a \in 1..(IF n > 0 THEN n ELSE 0) |-> x]

\* the flags of the padding put before those of the boxes
get_bboxes_flags_reversed(boxes, len_bbox) ==
    LET size == Len(boxes)
    IN [ans |-> boxes \o Repeat(Zero, len_bbox - size),
        flag |-> Repeat(FALSE, len_bbox - size) \o Repeat(TRUE, size)]

\* get_bboxes on the (noised) boxes found for one image and class
get_bboxes(boxes, len_bbox) ==
    LET size == Len(boxes)
    IN [ans |-> boxes \o Repeat(Zero, len_bbox - size),
        flag |-> IF size = 0 THEN Repeat(FALSE, len_bbox)
                 ELSE IF size = len_bbox THEN Repeat(TRUE, len_bbox)
                 ELSE Repeat(TRUE, size) \o Repeat(FALSE, len_bbox - size)]

\* get_prompt_bbox_per_image: get_bboxes for each class, stacked
get_prompt_bbox_per_image(counts, max_anns) ==
    LET res == [i \in 1..Len(counts) |->
                  get_bboxes([a \in 1..counts[i] |-> <<1, i, a, 0>>], max_anns)]
    IN [bbox |-> [shape |-> <<Len(counts), max_anns>>,
                   at |-> [i \in 1..Len(counts) |-> res[i].ans]],
        flag |-> [shape |-> <<Len(counts), max_anns>>,
                   at |-> [i \in 1..Len(counts) |-> res[i].flag]]]

pad_coords_image(coords_flags, max_anns) ==
    LET coords == coords_flags.coords
        flags == coords_flags.flags
        size == coords.shape[1]
        k == coords.shape[2]
    IN IF size = max_anns THEN coords_flags
       ELSE [coords |-> [shape |-> <<max_anns, k>>,
                          at |-> coords.at \o Repeat(Repeat(Zero, k), max_anns - size)],
             flags |-> [shape |-> <<max_anns, flags.shape[2]>>,
                         at |-> flags.at \o
                                Repeat(Repeat(FALSE, flags.shape[2]), max_anns - flags.shape[1])]]

\* get_coords_per_image_class: one row of k points per annotation, or a
\* single row of padding when the image has no annotation of the class
get_coords_per_image_class(i, count, k) ==
    IF count = 0
    THEN [coords |-> [shape |-> <<1, k>>, at |-> <<Repeat(Zero, k)>>],
          flags |-> [shape |-> <<1, k>>, at |-> <<Repeat(FALSE, k)>>]]
    ELSE [coords |-> [shape |-> <<count, k>>,
                       at |-> [a \in 1..count |-> [p \in 1..k |->
                                 IF p <= RealPoints(i, a, k) THEN <<1, i, a, p>> ELSE Zero]]],
          flags |-> [shape |-> <<count, k>>,
                      at |-> [a \in 1..count |-> [p \in 1..k |->
                                p <= RealPoints(i, a, k)]]]]

get_coords_per_image(counts, k) ==
    LET coords_flags == [i \in 1..Len(counts) |->
                            get_coords_per_image_class(i, counts[i], k)]
        max_anns == Max({coords_flags[i].coords.shape[1] : i \in 1..Len(counts)})
        padded == [i \in 1..Len(counts) |-> pad_coords_image(coords_flags[i], max_anns)]
    IN [coords |-> [shape |-> <<Len(counts), max_anns, k>>,
                     at |-> [i \in 1..Len(counts) |-> padded[i].coords.at]],
        flags |-> [shape |-> <<Len(counts), max_anns, k>>,
                    at |-> [i \in 1..Len(counts) |-> padded[i].flags.at]]]

pad_coords(coords_flags, max_anns) ==
    LET coords == coords_flags.coords
        flags == coords_flags.flags
        c == coords.shape[1]
        k == coords.shape[3]
    IN IF coords.shape[2] = max_anns THEN coords_flags
       ELSE [coords |-> [shape |-> <<c, max_anns, k>>,
                          at |-> [i \in 1..c |-> coords.at[i] \o
                                    Repeat(Repeat(Zero, k), max_anns - coords.shape[2])]],
             flags |-> [shape |-> <<flags.shape[1], max_anns, flags.shape[3]>>,
                         at |-> [i \in 1..flags.shape[1] |-> flags.at[i] \o
                                   Repeat(Repeat(FALSE, flags.shape[3]),
                                          max_anns - flags.shape[2])]]]

\* the annotations of one image: the number of annotations of each target
\* class, and the number of points extracted per annotation
PadJobs ==
    {[counts |-> c, k |-> k] :
        c \in UNION {[1..n -> 0..MaxAnnotations] : n \in 1..MaxClassId},
        k \in 1..PointsPerAnnotation}

\* the annotations of one image are handed to the extraction functions
PadInputInit ==
    /\ classes_in = <<>>
    /\ new_classes = <<>>
    /\ collated = TRUE
    /\ PromptIdle
    /\ pad_in \in PadJobs
    /\ pad_out = [fn |-> "none"]
    /\ GtIdle
    /\ ItemIdle

\* get_prompt_bbox_per_image for the image, with the padding length that
\* get_max_bbox found over all images
PadBboxes ==
    /\ pad_in.k > 0
    /\ pad_out.fn = "none"
    /\ \E max_anns \in Max(Range(pad_in.counts))..MaxAnnotations :
          LET r == get_prompt_bbox_per_image(pad_in.counts, max_anns)
          IN pad_out' = [fn |-> "get_bboxes", data |-> r.bbox, flag |-> r.flag]
    /\ UNCHANGED pad_in

\* get_coords_per_image for the image
PadCoordsImage ==
    /\ pad_in.k > 0
    /\ pad_out.fn = "none"
    /\ LET r == get_coords_per_image(pad_in.counts, pad_in.k)
       IN pad_out' = [fn |-> "pad_coords_image", data |-> r.coords, flag |-> r.flags]
    /\ UNCHANGED pad_in

\* pad_coords on the image's coordinates, to the largest annotation count
\* among the example images
PadCoords ==
    /\ pad_out.fn = "pad_coords_image"
    /\ \E max_anns \in pad_out.data.shape[2]..(MaxAnnotations + 1) :
          LET r == pad_coords([coords |-> pad_out.data, flags |-> pad_out.flag], max_anns)
          IN pad_out' = [fn |-> "pad_coords", data |-> r.coords, flag |-> r.flags]
    /\ UNCHANGED pad_in

paddingUnchanged == <<subVars, samplerVars, classVars, promptVars, gtVars, itemVars>>
ExtractBboxes == PadBboxes /\ UNCHANGED paddingUnchanged
ExtractCoords == PadCoordsImage /\ UNCHANGED paddingUnchanged
PadExampleCoords == PadCoords /\ UNCHANGED paddingUnchanged

(***************************************************************************)
(* collate_gt                                                              *)
(*                                                                         *)
(* A ground-truth map is the sequence of its H rows, each a sequence of W  *)
(* pixel values; pixel [i, j] of the source is tensor[i + 1][j + 1].       *)
(***************************************************************************)
MaxSide == 2

\* the loops of collate_gt from pixel [i, j] on: both run over
\* range(tensor.size(0)); the tensor is changed in place, so an IndexError
\* leaves the pixels already visited remapped
RECURSIVE GtLoop(_, _, _, _, _)
GtLoop(tensor, original_classes, classmap, i, j) ==
    LET size0 == Len(tensor)
        size1 == Len(tensor[1])
        old == tensor[i + 1][j + 1]
        new == IF old = 0 THEN 0 ELSE classmap[original_classes[old]]
    IN IF i >= size0 THEN [tensor |-> tensor, raised |-> "none"]
       ELSE IF j >= size0 THEN GtLoop(tensor, original_classes, classmap, i + 1, 0)
       ELSE IF j >= size1 THEN [tensor |-> tensor, raised |-> "IndexError"]
       ELSE GtLoop([tensor EXCEPT ![i + 1][j + 1] = new],
                   original_classes, classmap, i, j + 1)

collate_gt(tensor, original_classes, classmap) ==
    GtLoop(tensor, original_classes, classmap, 0, 0)

\* the ground truth of an episode with c local classes: pixel [i, j] shows
\* local class (i + j) mod (c + 1), 0 being the background
GroundTruthMap(h, w, c) ==
    [i \in 1..h |-> [j \in 1..w |-> (i + j - 2) % (c + 1)]]

\* the ground truths of an episode and of another episode of its batch are
\* handed to collate_gt
GtInputInit ==
    /\ classes_in \in [1..2 -> ClassDicts]
    /\ new_classes = <<>>
    /\ collated = FALSE
    /\ PromptIdle
    /\ PadIdle
    /\ gt_in \in {[e \in 1..2 |-> GroundTruthMap(h, w, Len(classes_in[e]))] :
                     h \in 1..MaxSide, w \in 1..MaxSide}
    /\ gt_out = <<>>
    /\ ItemIdle

\* collate_gt on the ground truth of every episode
CollateGroundTruthMaps ==
    /\ collated
    /\ gt_in # <<>>
    /\ gt_out = <<>>
    /\ gt_out' = [e \in 1..Len(gt_in) |-> collate_gt(gt_in[e], classes_in[e], new_classes)]
    /\ UNCHANGED <<classVars, gt_in>>

CollateGroundTruths ==
    CollateGroundTruthMaps
    /\ UNCHANGED <<subVars, samplerVars, promptVars, padVars, itemVars>>

(***************************************************************************)
(* LabelAnythingDataset.collate_fn                                         *)
(*                                                                         *)
(* An item of batched_input is described by what collate_fn reads of it:   *)
(* the class dimension of its prompt tensors, the annotation dimensions of *)
(* its boxes and points, its class list and its dataset name.  A tensor of *)
(* the returned dict is described by the call that produced it and the     *)
(* batch-wide arguments of that call.                                      *)
(***************************************************************************)
Tensor(from, args) == [kind |-> "tensor", from |-> from, args |-> args]

\* flag_gts: row i has its first len(set(classes of item i)) + 1 entries set
FlagGts(classes, max_classes) ==
    [i \in 1..Len(classes) |->
        [c \in 1..max_classes |-> c <= Cardinality(Range(classes[i])) + 1]]

\* an empty batched_input is returned as an empty batch
collate_fn_tolerant(self, batched_input) ==
    [raised |-> "none",
     data_dict |-> [k \in {"classes"} |-> [kind |-> "list", value |-> <<>>]],
     ground_truths |-> Tensor("collate_batch_gts", <<>>),
     dataset_names |-> [kind |-> "tuple", value |-> <<>>]]

collate_fn(self, batched_input) ==
    IF Len(batched_input) = 0
    THEN \* batched_input, dataset_names = zip(*batched_input)
         [raised |-> "ValueError"]
    ELSE
      LET B == 1..Len(batched_input)
          dataset_names == [i \in B |-> batched_input[i].dataset_name]
          max_classes == Max({batched_input[i].classes_dim : i \in B})
          max_bboxes == Max({batched_input[i].bbox_anns : i \in B})
          max_points == Max({batched_input[i].point_anns : i \in B})
          classes == [i \in B |-> batched_input[i].classes]
          image_key == IF batched_input[1].embeddings THEN "embeddings" ELSE "images"
          keys == {image_key, "prompt_points", "flag_points", "prompt_bboxes",
                   "flag_bboxes", "prompt_masks", "flag_masks", "dims", "classes",
                   "flag_gts"}
                  \cup (IF self.log_images /\ self.load_embeddings
                        THEN {"images"} ELSE {})
          entry(k) ==
            CASE k \in {"prompt_points", "flag_points"} ->
                    Tensor("collate_coords", <<max_classes, max_points>>)
              [] k \in {"prompt_bboxes", "flag_bboxes"} ->
                    Tensor("collate_bbox", <<max_classes, max_bboxes>>)
              [] k \in {"prompt_masks", "flag_masks"} ->
                    Tensor("collate_mask", <<max_classes>>)
              [] k = "classes" -> [kind |-> "list", value |-> classes]
              [] k = "flag_gts" ->
                    [kind |-> "tensor", from |-> "zeros",
                     value |-> FlagGts(classes, max_classes)]
              [] OTHER -> Tensor("stack", <<Len(batched_input)>>)
      IN [raised |-> "none",
          data_dict |-> [k \in keys |-> entry(k)],
          ground_truths |-> Tensor("collate_batch_gts", <<Len(batched_input)>>),
          dataset_names |-> [kind |-> "tuple", value |-> dataset_names]]

\* the items a dataset with the given load_embeddings setting hands to
\* collate_fn for a batch of episodes with the given class lists
BatchedInput(classes, dims, load_embeddings) ==
    [i \in 1..Len(classes) |->
        [classes_dim |-> Len(classes[i]) + 1,
         bbox_anns |-> dims[i],
         point_anns |-> MaxAnnotations + 1 - dims[i],
         classes |-> classes[i],
         embeddings |-> load_embeddings,
         dataset_name |-> IF i % 2 = 1 THEN "coco" ELSE "lvis"]]

ItemAnnotationDims(E) == {[e \in 1..E |-> 1 + (e % MaxAnnotations)]}

\* the dataloader hands a list of fetched items to collate_fn
FnInputInit ==
    /\ classes_in = <<>>
    /\ new_classes = <<>>
    /\ collated = TRUE
    /\ PromptIdle
    /\ PadIdle
    /\ GtIdle
    /\ fn_in \in
          {[items |-> BatchedInput(b, dims, le), log_images |-> li, load_embeddings |-> le] :
             b \in {<<>>}, dims \in {<<>>}, li \in BOOLEAN, le \in BOOLEAN}
          \cup UNION {
             {[items |-> BatchedInput(b, dims, le), log_images |-> li,
               load_embeddings |-> le] :
                 dims \in ItemAnnotationDims(Len(b)), li \in BOOLEAN, le \in BOOLEAN} :
             b \in PromptBatches}
    /\ fn_result = [raised |-> "not called"]
    /\ NoiseIdle
    /\ PascalIdle
    /\ MoreIdle

CollateFnCall ==
    /\ fn_result.raised = "not called"
    /\ fn_result' = collate_fn(fn_in, fn_in.items)
    /\ UNCHANGED fn_in

CollateFn ==
    CollateFnCall
    /\ UNCHANGED <<subVars, samplerVars, classVars, promptVars, padVars, gtVars,
                   noiseVars, pascalVars, moreVars>>

(***************************************************************************)
(* add_noise                                                               *)
(*                                                                         *)
(* Coordinates and noise are whole pixels.  A draw of                      *)
(* np.random.normal(0, std) is 0 when std is 0 and any value otherwise.    *)
(***************************************************************************)
MAX_PIXELS_BBOX_NOISE == 20
MaxExcess == 1
SideLength == 300

Abs(x) == IF x < 0 THEN -x ELSE x
Sign(x) == IF x < 0 THEN -1 ELSE IF x > 0 THEN 1 ELSE 0

\* the values a draw with a positive standard deviation is taken from: zero,
\* one pixel, the limit, and up to MaxExcess pixels beyond it, of either sign
NoiseMagnitudes ==
    {0, 1, MAX_PIXELS_BBOX_NOISE}
    \cup (MAX_PIXELS_BBOX_NOISE + 1)..(MAX_PIXELS_BBOX_NOISE + MaxExcess)
NormalDraws(std_times_10) ==
    IF std_times_10 = 0 THEN {0}
    ELSE {sgn * m : sgn \in {-1, 1}, m \in NoiseMagnitudes}

\* lambda val: val if abs(val) <= 20 else np.sign(val) * MAX_PIXELS_BBOX_NOISE
TruncateNoiseNever(val) == val

TruncateNoise(val) ==
    IF Abs(val) <= 20 THEN val ELSE Sign(val) * MAX_PIXELS_BBOX_NOISE

\* add_noise with the four normal draws given
add_noise(bbox, draws_x, draws_y) ==
    LET noise_x == [n \in 1..2 |-> TruncateNoise(draws_x[n])]
        noise_y == [n \in 1..2 |-> TruncateNoise(draws_y[n])]
    IN <<bbox[1] + noise_x[1], bbox[2] + noise_y[1],
         bbox[3] + noise_x[2], bbox[4] + noise_y[2]>>

\* the boxes: each coordinate at the origin or SideLength pixels from it, so
\* a side is 0 or SideLength pixels long
Boxes == [1..4 -> {0, SideLength}]

NoiseInputInit ==
    /\ classes_in = <<>>
    /\ new_classes = <<>>
    /\ collated = TRUE
    /\ PromptIdle
    /\ PadIdle
    /\ GtIdle
    /\ FnIdle
    /\ bbox_in \in Boxes
    /\ noised = <<>>
    /\ MoreIdle
    /\ PascalIdle

AddNoiseCall ==
    /\ bbox_in # <<>>
    /\ noised = <<>>
    /\ LET std_w_times_10 == Abs(bbox_in[1] - bbox_in[3])
           std_h_times_10 == Abs(bbox_in[2] - bbox_in[4])
       IN \E draws_x \in [1..2 -> NormalDraws(std_w_times_10)],
             draws_y \in [1..2 -> NormalDraws(std_h_times_10)] :
             noised' = add_noise(bbox_in, draws_x, draws_y)
    /\ UNCHANGED bbox_in

AddNoise ==
    AddNoiseCall
    /\ UNCHANGED <<subVars, samplerVars, classVars, promptVars, padVars, gtVars,
                   fnVars, pascalVars, moreVars>>

(***************************************************************************)
(* PascalDataset.__getitem__: the class list of the episode                *)
(***************************************************************************)
MaxExamples == 1

\* itertools.chain(*aux_cat_ids), every set listed in increasing order
RECURSIVE Chain(_)
Chain(sets) ==
    IF Len(sets) = 0 THEN <<>> ELSE SetToSeq(Head(sets)) \o Chain(Tail(sets))

\* the chained identifiers as they come, then the sentinel in front
CatIdsUnsorted(aux_cat_ids) == <<-1>> \o Chain(aux_cat_ids)

\* cat_ids = sorted(list(set(itertools.chain(*aux_cat_ids)))); cat_ids.insert(0, -1)
CatIds(aux_cat_ids) == <<-1>> \o SetToSeq(Range(Chain(aux_cat_ids)))

\* lines 309-312: with all_example_categories every example brings all the
\* categories of its image
AuxCatIds(p) ==
    IF p.all_example_categories
    THEN <<p.aux_cat_ids[1]>> \o
         [j \in 1..(Len(p.image_names) - 1) |-> p.img2cat[p.image_names[j + 1]]]
    ELSE p.aux_cat_ids

\* what _extract_examples returns for a query image: the query and its
\* examples, each with the sampled classes it shows
ExtractedExamples(img2cat, class_ids) ==
    [image_names |-> [j \in 1..Len(img2cat) |-> j],
     aux_cat_ids |-> [j \in 1..Len(img2cat) |-> img2cat[j] \cap class_ids]]

\* a fetch: the categories of the query image and of each example image, the
\* classes sampled from the query, and the setting
PascalFetch(img2cat, class_ids, all_example_categories) ==
    [img2cat |-> img2cat,
     image_names |-> ExtractedExamples(img2cat, class_ids).image_names,
     aux_cat_ids |-> ExtractedExamples(img2cat, class_ids).aux_cat_ids,
     all_example_categories |-> all_example_categories]

\* the segmentation map of an image with the categories cats, one pixel per
\* region: pixel 0 is background, pixel c shows category c when the image
\* has it.  Every image has the same size, so stacking the ground truths
\* pads nothing.
Seg(cats) == [px \in 1..(MaxClassId + 1) |-> IF (px - 1) \in cats THEN px - 1 ELSE 0]

\* compute_ground_truths: zeros, then the pixels of every listed category the
\* image has are set to the category identifier
compute_ground_truths(p, ids) ==
    [j \in 1..Len(p.image_names) |->
        LET cats == p.img2cat[p.image_names[j]]
            seg == Seg(cats)
        IN [px \in 1..Len(seg) |->
                IF seg[px] \in (Range(ids) \cap cats) THEN seg[px] ELSE 0]]

\* the ground truths _get_images_or_embeddings returns: those stored with the
\* embeddings (the segmentation maps) when embeddings and ground truths are
\* loaded, None otherwise
StoredGts(p, opts) ==
    IF opts.load_embeddings /\ opts.load_gts
    THEN [j \in 1..Len(p.image_names) |-> Seg(p.img2cat[p.image_names[j]])]
    ELSE <<>>

\* ground_truths[ground_truths_copy == cat_id] = i for i, cat_id in
\* enumerate(cat_ids), skipping -1, on a tensor of zeros
RemapGts(gts, ids) ==
    [j \in 1..Len(gts) |->
        [px \in 1..Len(gts[j]) |->
            IF \E i \in 2..Len(ids) : ids[i] = gts[j][px]
            THEN (CHOOSE i \in 2..Len(ids) : ids[i] = gts[j][px]) - 1
            ELSE 0]]

\* lines 317-345: the ground truths of the item
ItemGroundTruths(p, opts, ids) ==
    LET stored == StoredGts(p, opts)
        gts == IF stored = <<>> THEN compute_ground_truths(p, ids) ELSE stored
    IN IF opts.load_gts THEN RemapGts(gts, ids) ELSE gts

PascalInputInit ==
    /\ classes_in = <<>>
    /\ new_classes = <<>>
    /\ collated = TRUE
    /\ PromptIdle
    /\ PadIdle
    /\ GtIdle
    /\ FnIdle
    /\ NoiseIdle
    /\ MoreIdle
    /\ \E n \in 1..(MaxExamples + 1) :
         \E img2cat \in [1..n -> SUBSET (1..MaxClassId)] :
           \E class_ids \in SUBSET img2cat[1], all_example_categories \in BOOLEAN :
             pascal_in = PascalFetch(img2cat, class_ids, all_example_categories)
    /\ cat_ids = <<>>
    /\ pascal_opts \in [load_gts : BOOLEAN, load_embeddings : BOOLEAN]
    /\ item_gts = <<>>

\* PascalDataset.__getitem__: the class list and the ground truths of the item
PascalGetItem ==
    /\ Len(pascal_in.image_names) > 0
    /\ cat_ids = <<>>
    /\ cat_ids' = CatIds(AuxCatIds(pascal_in))
    /\ item_gts' = ItemGroundTruths(pascal_in, pascal_opts, cat_ids')
    /\ UNCHANGED <<pascal_in, pascal_opts>>

GetItem ==
    PascalGetItem
    /\ UNCHANGED <<subVars, samplerVars, classVars, promptVars, padVars, gtVars,
                   fnVars, noiseVars, moreVars>>

(***************************************************************************)
(* generate_points_from_errors                                             *)
(*                                                                         *)
(* The maps have height 1 and width ErrPixels; the prediction is given by  *)
(* its argmax over the class dimension.  Rows are <<b, c, h, w>>, 0-based  *)
(* as in the source.                                                       *)
(***************************************************************************)
ErrEpisodes == 2
ErrClasses == 2
ErrPixels == 2
MaxNumPoints == 2

\* errors[b, c, 0, w] = one_hot(ground_truth) - one_hot(prediction)
ErrorAt(ground_truth, prediction, b, c, w) ==
    (IF ground_truth[b + 1][w + 1] = c THEN 1 ELSE 0)
    - (IF prediction[b + 1][w + 1] = c THEN 1 ELSE 0)

\* torch.nonzero(errors): the rows of the nonzero entries in row-major order
Coords(ground_truth, prediction, C) ==
    LET W == Len(ground_truth[1])
        codes == {(b * C + c) * W + w :
                    b \in 0..(Len(ground_truth) - 1), c \in 0..(C - 1), w \in 0..(W - 1)}
        nonzero == {k \in codes :
                      ErrorAt(ground_truth, prediction, k \div (C * W), (k \div W) % C, k % W) # 0}
        ordered == SetToSeq(nonzero)
    IN [q \in 1..Len(ordered) |->
          <<ordered[q] \div (C * W), (ordered[q] \div W) % C, 0, ordered[q] % W>>]

\* the (episode, class) pair of a row, as one number
PairOf(row, C) == row[1] * C + row[2]

\* torch.unique(coords[:, 0:2], dim=0, sorted=True): the pairs with errors
UniquePairs(coords, C) == SetToSeq({PairOf(coords[q], C) : q \in 1..Len(coords)})

\* counts of torch.unique(..., return_counts=True)
CountOf(coords, C, pair) == Cardinality({q \in 1..Len(coords) : PairOf(coords[q], C) = pair})

\* counts.cumsum shifted: the index of the first row of the pair in coords
OffsetOf(coords, C, pair) == Cardinality({q \in 1..Len(coords) : PairOf(coords[q], C) < pair})

\* sampled_idxs: num_points draws of torch.randint(0, count) per pair, plus the
\* offset of the pair; draw t of a pair is (seed + t) % count
SampledIdxs(coords, C, n, seed) ==
    LET pairs == UniquePairs(coords, C)
    IN [q \in 1..(Len(pairs) * n) |->
          LET pair == pairs[((q - 1) \div n) + 1]
              t == (q - 1) % n
          IN OffsetOf(coords, C, pair) + ((seed + t) % CountOf(coords, C, pair))]

\* the (episode, class) pairs without an error pixel, one row <<b, c, 0, 0>>
\* each
MissingRows(coords, B, C) ==
    LET present == {PairOf(coords[q], C) : q \in 1..Len(coords)}
        absent == SetToSeq((0..(B * C - 1)) \ present)
    IN [q \in 1..Len(absent) |-> <<absent[q] \div C, absent[q] % C, 0, 0>>]

\* _, indices = torch.sort(sampled_points[:, :2], dim=0); indices[:, 1]: the
\* argsort of the class column alone.  torch.sort is not stable by default:
\* rows of one class come in their old order (tie = "kept") or in the
\* opposite order (tie = "reversed").
ClassColumnArgsort(rows, tie) ==
    LET N == Len(rows)
        keys == {rows[k][2] * (N + 1) + (IF tie = "kept" THEN k ELSE N + 1 - k) : k \in 1..N}
        ordered == SetToSeq(keys)
    IN [q \in 1..N |->
          LET r == ordered[q] % (N + 1)
          IN IF tie = "kept" THEN r ELSE N + 1 - r]

\* rearrange(x, "(b c n) ... -> b c n ...", n=num_points, c=C)
RearrangeBCN(x, C, n) ==
    [b \in 1..(Len(x) \div (C * n)) |->
        [c \in 1..C |-> [k \in 1..n |-> x[((b - 1) * C + (c - 1)) * n + k]]]]

generate_points_from_errors(prediction, ground_truth, n_points, C, seed, tie) ==
    LET B == Len(prediction)
        coords == Coords(ground_truth, prediction, C)
        sampled_idxs == SampledIdxs(coords, C, n_points, seed)
        sampled_points == [q \in 1..Len(sampled_idxs) |-> coords[sampled_idxs[q] + 1]]
        labels == [q \in 1..Len(sampled_points) |->
                     ErrorAt(ground_truth, prediction, sampled_points[q][1], sampled_points[q][2], sampled_points[q][4])]
        missing == MissingRows(coords, B, C)
        all_points == sampled_points \o missing
        all_labels == labels \o [q \in 1..Len(missing) |-> 0]
        class_order == ClassColumnArgsort(all_points, tie)
        sorted_points == [q \in 1..Len(class_order) |-> all_points[class_order[q]]]
        sorted_labels == [q \in 1..Len(class_order) |-> all_labels[class_order[q]]]
    IN IF Len(coords) = 0
       THEN \* torch.cat of the empty list of draws
            [raised |-> "RuntimeError"]
       ELSE IF Len(sorted_points) % (C * n_points) # 0
       THEN \* the rows cannot be split into (b c n)
            [raised |-> "EinopsError"]
       ELSE [raised |-> "none",
             points |-> RearrangeBCN([q \in 1..Len(sorted_points) |->
                                         <<sorted_points[q][3], sorted_points[q][4]>>],
                                     C, n_points),
             labels |-> RearrangeBCN(sorted_labels, C, n_points)]

\* the ground truth of episode b: pixel w has class (b + w) % C
ErrGroundTruth(B, C) == [b \in 1..B |-> [w \in 1..ErrPixels |-> (b + w) % C]]

\* the predictions of one episode: the ground truth, one class everywhere, or
\* every pixel one class off
ErrPredictions(gt, C) ==
    {gt} \cup {[w \in 1..Len(gt) |-> k] : k \in 0..(C - 1)}
         \cup {[w \in 1..Len(gt) |-> (gt[w] + 1) % C]}

ErrInputInit ==
    /\ classes_in = <<>>
    /\ new_classes = <<>>
    /\ collated = TRUE
    /\ PromptIdle
    /\ PadIdle
    /\ GtIdle
    /\ FnIdle
    /\ NoiseIdle
    /\ PascalIdle
    /\ DramIdle
    /\ \E B \in 1..ErrEpisodes :
         \E prediction \in [1..B -> UNION {ErrPredictions(ErrGroundTruth(B, ErrClasses)[b], ErrClasses) : b \in 1..B}] :
           \E n \in 1..MaxNumPoints, seed \in 0..1, tie \in {"kept", "reversed"} :
             /\ \A b \in 1..B : prediction[b] \in ErrPredictions(ErrGroundTruth(B, ErrClasses)[b], ErrClasses)
             /\ err_in = [prediction |-> prediction,
                          ground_truth |-> ErrGroundTruth(B, ErrClasses),
                          num_points |-> n, seed |-> seed, tie |-> tie]
    /\ err_out = [raised |-> "not called"]

GeneratePointsCall ==
    /\ err_out = [raised |-> "not called"]
    /\ err_out' = generate_points_from_errors(err_in.prediction, err_in.ground_truth,
                                              err_in.num_points, ErrClasses,
                                              err_in.seed, err_in.tie)
    /\ UNCHANGED err_in

GeneratePoints ==
    GeneratePointsCall
    /\ UNCHANGED <<subVars, samplerVars, classVars, promptVars, padVars, gtVars,
                   fnVars, noiseVars, pascalVars, dramVars>>

(***************************************************************************)
(* DramTestDataset: the support dictionaries and _extract_examples         *)
(*                                                                         *)
(* The train identifiers are 0 .. DramCategories - 1 and the example       *)
(* images are numbered from 0 as in the source; the ground truth of an     *)
(* example image is given by the set of train identifiers it shows.        *)
(***************************************************************************)
DramCategories == 4
DramImages == 2

\* _get_support_dict: img2cat[ix] = torch.unique(gt), cat2img[c] = the images
\* that show c, in increasing order
get_support_dict(example_gts) ==
    [img2cat |-> [ix \in 0..(Len(example_gts) - 1) |-> SetToSeq(example_gts[ix + 1])],
     cat2img |-> [c \in UNION Range(example_gts) |->
                    SetToSeq({ix \in 0..(Len(example_gts) - 1) : c \in example_gts[ix + 1]})]]

\* the image with the most categories among all example images
MostCategoriesOfAll(cat_images, img2cat) ==
    CHOOSE x \in DOMAIN img2cat :
        \A y \in DOMAIN img2cat :
            \/ Len(img2cat[y]) < Len(img2cat[x])
            \/ (Len(img2cat[y]) = Len(img2cat[x]) /\ y <= x)

\* max(map(lambda x: (len(img2cat[x]), x), cat_images)): the image of the
\* category with the most categories, the largest index among equals
MostCategories(cat_images, img2cat) ==
    CHOOSE x \in Range(cat_images) :
        \A y \in Range(cat_images) :
            \/ Len(img2cat[y]) < Len(img2cat[x])
            \/ (Len(img2cat[y]) = Len(img2cat[x]) /\ y <= x)

\* the loop of _extract_examples over the shuffled categories
RECURSIVE ExtractLoop(_, _, _)
ExtractLoop(categories, support, images) ==
    IF Len(categories) = 0 THEN images
    ELSE IF Head(categories) \notin DOMAIN support.cat2img
    THEN ExtractLoop(Tail(categories), support, images)
    ELSE ExtractLoop(Tail(categories), support,
                     images \cup {MostCategories(support.cat2img[Head(categories)],
                                                 support.img2cat)})

extract_examples(categories, support) == ExtractLoop(categories, support, {})

\* two of the orders random.shuffle can leave the K categories in
Shuffles(K) == {[i \in 1..K |-> i - 1], [i \in 1..K |-> K - i]}

DramInputInit ==
    /\ classes_in = <<>>
    /\ new_classes = <<>>
    /\ collated = TRUE
    /\ PromptIdle
    /\ PadIdle
    /\ GtIdle
    /\ FnIdle
    /\ NoiseIdle
    /\ PascalIdle
    /\ ErrIdle
    /\ \E n \in 0..DramImages :
         \E example_gts \in [1..n -> (SUBSET (0..(DramCategories - 1))) \ {{}}] :
           \E categories \in Shuffles(DramCategories) :
             dram_in = [categories |-> categories, example_gts |-> example_gts]
    /\ dram_out = [called |-> FALSE]

\* DramTestDataset.__init__ builds the support dictionaries and
\* extract_prompts calls _extract_examples
DramExtractExamples ==
    /\ Len(dram_in.categories) > 0
    /\ ~dram_out.called
    /\ dram_out' = [called |-> TRUE,
                    prompt_images |->
                        extract_examples(dram_in.categories,
                                         get_support_dict(dram_in.example_gts))]
    /\ UNCHANGED dram_in

ExtractExamples ==
    DramExtractExamples
    /\ UNCHANGED <<subVars, samplerVars, classVars, promptVars, padVars, gtVars,
                   fnVars, noiseVars, pascalVars, errVars>>

(***************************************************************************)
(* Specifications                                                          *)
(***************************************************************************)
Init == SubInit /\ SamplerInit /\ CollateInit

\* a training process: Substitutors built and iterated one after the other
Next == TrainBatch \/ CallNext \/ CallGenerateNewPoints
Spec == Init /\ [][Next]_vars

\* Substitutor.__init__ alone, over batches of several episodes
SpecConstruct == Init /\ [][ConstructOnce]_vars

\* a sampler is built, by get_dataloaders or directly, and iterated once
SamplerNext == BuildDataloader \/ BuildSampler \/ StartEpoch \/ NextBatch
SpecSampler == Init /\ [][SamplerNext]_vars

\* the class map of one batch of episodes
CollateSpecInit == SubInit /\ SamplerInit /\ CollateInputInit
SpecCollate == CollateSpecInit /\ [][BuildClassMap]_vars

\* the ground truths of the episodes of a batch are remapped
GtSpecInit == SubInit /\ SamplerInit /\ GtInputInit
GtNext == BuildClassMap \/ CollateGroundTruths
SpecGroundTruth == GtSpecInit /\ [][GtNext]_vars

\* the dataloader collates a list of fetched items
FnSpecInit == SubInit /\ SamplerInit /\ FnInputInit
SpecCollateFn == FnSpecInit /\ [][CollateFn]_vars

\* a bounding box is perturbed
NoiseSpecInit == SubInit /\ SamplerInit /\ NoiseInputInit
SpecNoise == NoiseSpecInit /\ [][AddNoise]_vars

\* a DramTestDataset chooses its prompt images
DramSpecInit == SubInit /\ SamplerInit /\ DramInputInit
SpecDram == DramSpecInit /\ [][ExtractExamples]_vars

\* error points are sampled from a prediction
ErrSpecInit == SubInit /\ SamplerInit /\ ErrInputInit
SpecPoints == ErrSpecInit /\ [][GeneratePoints]_vars

\* an item is fetched from a PascalDataset
PascalSpecInit == SubInit /\ SamplerInit /\ PascalInputInit
SpecPascal == PascalSpecInit /\ [][GetItem]_vars

\* the annotations of an image are extracted and padded, or the prompt
\* tensors of one batch of episodes are collated
PromptSpecInit == SubInit /\ SamplerInit /\ (PromptInputInit \/ PadInputInit)
PromptNext ==
    ExtractBboxes \/ ExtractCoords \/ PadExampleCoords \/ BuildClassMap \/ CollatePrompts
SpecPrompts == PromptSpecInit /\ [][PromptNext]_vars

(***************************************************************************)
(* Properties of the Substitutor                                           *)
(***************************************************************************)
HasImageKey == nsubs > 0 /\ ImageKeyOf(batch) # "none"
Ended == outcome \notin {"none", "yield"}
\* the per-example entries of the current batch
PerExampleKeys == DOMAIN batch \cap (PromptKeys \cup ImageKeys)
\* the batch the current instance was built over
OriginalBatch == CollatedBatch(DOMAIN batch \cap ImageKeys, NumSlots)
OriginalGroundTruths == [j \in 1..NumSlots |-> j - 1]

\* C1: a Substitutor with substitute = true over a batch of M slots yields
\* exactly M reframed pairs when iterated to exhaustion and then stops with
\* StopIteration, whether or not generate_new_points is called between steps.
C1_YieldsExactlyM ==
    (HasImageKey /\ substitute) =>
        /\ Len(yields) <= NumSlots
        /\ Ended => (outcome = "StopIteration" /\ Len(yields) = NumSlots)

\* C2: the ground truth returned at the k-th yield (k = 0 .. M-1) is that of
\* original slot k; so no slot is the query twice, and a Substitutor with
\* substitute = true that was iterated to its StopIteration has had every
\* original slot as the query exactly once.
C2_QueryIsSlotK ==
    nsubs > 0 =>
        /\ \A k \in 1..Len(yields) : yields[k].gt = k - 1
        /\ \A k, l \in 1..Len(yields) : k # l => yields[k].gt # yields[l].gt
        /\ (substitute /\ outcome = "StopIteration") =>
               {yields[k].gt : k \in 1..Len(yields)} = 0..(NumSlots - 1)

C2_Witness ==
    /\ nsubs > 0
    /\ substitute
    /\ NumSlots = MaxSlots
    /\ outcome = "StopIteration"
    /\ Len(yields) = MaxSlots
    /\ yields[MaxSlots].gt = MaxSlots - 1

\* C3: after every __next__ call every per-example entry of the batch and the
\* ground truths are reordered by the same permutation: position j of each
\* holds the data of the same original slot.
C3_SamePermutation ==
    (nsubs > 0 /\ calls > 0) =>
        \A key \in PerExampleKeys : \A j \in 1..NumSlots :
            batch[key][j].slot = ground_truths[j]

\* C5: over a batch with images or embeddings the first __next__ call returns
\* the query/examples split of the unpermuted batch whatever the substitute
\* flag is; with substitute = false it is the only yield and every later call
\* raises StopIteration.
C5_FirstYieldUnconditional ==
    HasImageKey =>
        /\ calls >= 1 =>
              /\ Len(yields) >= 1
              /\ yields[1] = divide_query_examples(OriginalBatch, OriginalGroundTruths)
        /\ ~substitute =>
              /\ Len(yields) <= 1
              /\ calls >= 2 => outcome = "StopIteration"

C5_Witness ==
    /\ HasImageKey
    /\ ~substitute
    /\ calls = 1 + MaxStopCalls
    /\ Len(yields) = 1
    /\ outcome = "StopIteration"

(***************************************************************************)
(* Properties of Substitutor.__init__                                      *)
(***************************************************************************)
RECURSIVE SumOver(_, _)
SumOver(S, f) ==
    IF S = {} THEN 0
    ELSE LET x == CHOOSE y \in S : TRUE IN f[x] + SumOver(S \ {x}, f)

RECURSIVE Factorial(_)
Factorial(n) == IF n <= 1 THEN 1 ELSE n * Factorial(n - 1)

\* the (episode, example, example) triples over which the similarity is averaged
ExamplePairs ==
    {t \in (1..Len(example_classes)) \X (1..NumSlots) \X (1..NumSlots) : t[2] < t[3]}

\* the sum over all pairs of the Jaccard index, scaled by NumClasses! so that
\* every term is an integer
ScaledSimilaritySum ==
    SumOver(ExamplePairs,
            [t \in ExamplePairs |->
                LET a == example_classes[t[1]][t[2]]
                    b == example_classes[t[1]][t[3]]
                IN (Factorial(NumClasses) * Cardinality(a \cap b)) \div Cardinality(a \cup b)])

\* mean similarity > threshold, < threshold: all episodes have the same number
\* of pairs, so the mean of the episode means is the mean over all pairs
MeanAboveThreshold ==
    ScaledSimilaritySum * threshold[2]
        > threshold[1] * Factorial(NumClasses) * Cardinality(ExamplePairs)
MeanBelowThreshold ==
    ScaledSimilaritySum * threshold[2]
        < threshold[1] * Factorial(NumClasses) * Cardinality(ExamplePairs)

\* C4 as stated: substitute is true when no threshold is configured or when
\* the mean over episodes of the mean pairwise Jaccard similarity of the class
\* sets is below the threshold, and false otherwise.
C4_SubstituteBelowThreshold ==
    nsubs > 0 => (substitute <=> (threshold = None \/ MeanBelowThreshold))

\* C4 amended: substitute is true when no threshold is configured or when the
\* mean over episodes of the mean pairwise Jaccard similarity of the class
\* sets is strictly above the threshold, and false otherwise.
C4_SubstituteAboveThreshold ==
    nsubs > 0 => (substitute <=> (threshold = None \/ MeanAboveThreshold))

C4_Witness ==
    /\ nsubs > 0
    /\ threshold # None
    /\ Len(example_classes) = MaxEpisodes
    /\ ~substitute
    /\ ~MeanBelowThreshold

(***************************************************************************)
(* Properties of get_dataloaders and VariableBatchSampler                  *)
(***************************************************************************)
FromDataloaders == DOMAIN loader # {}
Budget == loader.batch_size * loader.max_num_examples
\* the (batch, position) places at which dataset index i was yielded
PlacesOf(i) ==
    {pl \in (1..Len(sampled)) \X (0..data_len) :
        pl[2] >= 1 /\ pl[2] <= Len(sampled[pl[1]]) /\ sampled[pl[1]][pl[2]][1] = i}

\* C6 as stated: in one epoch of the sampler that get_dataloaders builds,
\* every dataset index 0 .. len(dataset)-1 appears in exactly one yielded batch.
C6_EveryIndexExactlyOnce ==
    (FromDataloaders /\ sampler_state = "done") =>
        \A i \in 0..(data_len - 1) : Cardinality(PlacesOf(i)) = 1

\* C6 amended: in one epoch of the sampler that get_dataloaders builds, every
\* dataset index appears in at most one yielded batch.
C6_EveryIndexAtMostOnce ==
    FromDataloaders =>
        \A i \in 0..(data_len - 1) : Cardinality(PlacesOf(i)) <= 1

C6_Witness ==
    /\ FromDataloaders
    /\ sampler_state = "done"
    /\ Len(sampled) >= 2
    /\ \E i \in 0..(data_len - 1) : Cardinality(PlacesOf(i)) = 0
    /\ \E i \in 0..(data_len - 1) : Cardinality(PlacesOf(i)) = 1

\* C7: every batch yielded by the sampler that get_dataloaders builds, except
\* the trailing remainder batch, satisfies
\* (number of pairs) * (num_examples carried by the pairs) = batch_size * max_num_examples.
C7_BudgetConserved ==
    FromDataloaders =>
        \A k \in 1..Len(sampled) :
            k <= loader.dataset_len \div Budget =>
                Len(sampled[k]) * sampled[k][1][2] = Budget

\* C8: constructing a VariableBatchSampler with an empty batch_sizes list
\* raises ValueError, so no sampler with zero batch sizes is ever iterated.
C8_EmptyBatchSizesRejected ==
    /\ (sampler_state \notin {"none", "IndexError"} /\ Len(batch_sizes) = 0)
           => sampler_state = "ValueError"
    /\ sampler_state \in {"iterating", "done", "RuntimeError"} => Len(batch_sizes) > 0

C8_Witness ==
    /\ ~FromDataloaders
    /\ Len(batch_sizes) = 0
    /\ sampler_state = "ValueError"

\* C9: with drop_last = True, when the index pool runs out before a batch
\* reaches its configured size, the incomplete batch is not yielded and the
\* iteration ends normally, without raising.
C9_DropLastEndsNormally ==
    (sampler_state # "none" /\ drop_last) =>
        /\ \A k \in 1..Len(sampled) : Len(sampled[k]) = batch_sizes[k]
        /\ sampler_state # "RuntimeError"

(***************************************************************************)
(* Properties of rearrange_classes                                         *)
(***************************************************************************)
\* decoding a channel index through the class map
Decode(ix) == CHOOSE val \in DOMAIN new_classes : new_classes[val] = ix

\* C10: rearrange_classes returns a bijection between the distinct class
\* identifiers of the batch and the channel indices 1 .. n: no identifier is
\* mapped to 0, no two identifiers share an index, and decoding an index and
\* re-encoding it returns the same index and identifier.
C10_ClassMapBijection ==
    collated =>
        LET ids == DistinctClasses(classes_in)
            n == Cardinality(ids)
        IN /\ DOMAIN new_classes = ids
           /\ \A val \in ids : new_classes[val] \in 1..n
           /\ \A v, w \in ids : v # w => new_classes[v] # new_classes[w]
           /\ \A ix \in 1..n : \E val \in ids : new_classes[val] = ix
           /\ \A ix \in 1..n : new_classes[Decode(ix)] = ix
           /\ \A val \in ids : Decode(new_classes[val]) = val

C10_Witness ==
    /\ collated
    /\ Len(classes_in) >= 2
    /\ Range(classes_in[1]) # Range(classes_in[2])
    /\ Cardinality(DOMAIN new_classes) = MaxClassId
    /\ \E val \in DOMAIN new_classes : new_classes[val] # val

(***************************************************************************)
(* Properties of collate_mask, collate_bbox and collate_coords             *)
(***************************************************************************)
PromptsCollated == prompts_out # <<>>
Episodes == 1..Len(classes_in)
HasPrompts(e) == ~IsNone(prompts_in[e].bbox)
\* the channel of class identifier g, counted from 1: channel number
\* new_classes[g] is the tensor index new_classes[g] - 1
ChannelOf(g) == new_classes[g]

\* C11: for every local class position i of an episode, with identifier
\* g = original_classes[i], the collated mask, box and point tensors hold the
\* episode's input slice i (data and flag, in the annotation slots 0 .. n-1)
\* in the one channel that new_classes gives to g (channel number
\* new_classes[g] counted from 1, tensor index new_classes[g] - 1), and
\* distinct identifiers of the episode land in distinct channels.
C11_SlicesScattered ==
    PromptsCollated =>
        \A e \in Episodes : HasPrompts(e) =>
            \A i \in 1..Len(classes_in[e]) :
                LET ch == ChannelOf(classes_in[e][i])
                    x == prompts_in[e]
                    y == prompts_out[e]
                IN /\ ch \in 1..y.mask.shape[1]
                   /\ y.mask.at[ch] = x.mask.at[i]
                   /\ \A a \in 1..x.bbox.shape[2] :
                         /\ y.bbox.at[ch][a] = x.bbox.at[i][a]
                         /\ y.flag_bbox.at[ch][a] = x.flag_bbox.at[i][a]
                         /\ y.coords.at[ch][a] = x.coords.at[i][a]
                         /\ y.flag_coords.at[ch][a] = x.flag_coords.at[i][a]
                   /\ \A j \in 1..Len(classes_in[e]) :
                         j # i => ChannelOf(classes_in[e][j]) # ch

C11_Witness ==
    /\ PromptsCollated
    /\ Len(classes_in) = 2
    /\ HasPrompts(1) /\ HasPrompts(2)
    /\ prompts_in[2].bbox.shape[2] < max_annotations
    /\ \E i \in 1..Len(classes_in[2]) :
          /\ ChannelOf(classes_in[2][i]) # i
          /\ prompts_in[2].flag_bbox.at[i][1]
          /\ prompts_out[2].bbox.at[ChannelOf(classes_in[2][i])][1] = <<2, i, 1, 0>>

\* the identifiers of the batch-wide class map that episode e does not have
AbsentClasses(e) == DOMAIN new_classes \ Range(classes_in[e])
AllZero(row) == \A a \in 1..Len(row) : row[a] = Zero
AllFalse(row) == \A a \in 1..Len(row) : row[a] = FALSE

\* C12: for every class identifier of the batch-wide class map that is not
\* among an episode's own classes, the channel of that identifier in the
\* episode's collated mask, box and point tensors is all zero and its flags
\* are all 0 (episodes {1,3} and {2,3}: the first has an all-zero channel for
\* id 2, the second for id 1).
C12_AbsentClassChannelZero ==
    PromptsCollated =>
        \A e \in Episodes : \A g \in AbsentClasses(e) :
            LET ch == ChannelOf(g)
                y == prompts_out[e]
            IN /\ y.mask.at[ch] = Zero
               /\ Len(y.bbox.at[ch]) = max_annotations
               /\ AllZero(y.bbox.at[ch])
               /\ AllFalse(y.flag_bbox.at[ch])
               /\ Len(y.coords.at[ch]) = max_annotations
               /\ \A a \in 1..max_annotations :
                     /\ AllZero(y.coords.at[ch][a])
                     /\ AllFalse(y.flag_coords.at[ch][a])

C12_Witness ==
    /\ PromptsCollated
    /\ classes_in = <<<<1, 3>>, <<2, 3>>>>
    /\ HasPrompts(1) /\ HasPrompts(2)
    /\ AbsentClasses(1) = {2}
    /\ AbsentClasses(2) = {1}
    /\ prompts_out[1].mask.at[ChannelOf(2)] = Zero
    /\ prompts_out[1].mask.at[ChannelOf(1)] # Zero
    /\ prompts_out[2].mask.at[ChannelOf(1)] = Zero

\* the class and annotation dimensions of an output tensor are those of its
\* contents
WellShaped(t) ==
    /\ Len(t.at) = t.shape[1]
    /\ Len(t.shape) >= 2 => \A ch \in 1..Len(t.at) : Len(t.at[ch]) = t.shape[2]
OutputTensors(e) ==
    <<prompts_out[e].mask, prompts_out[e].bbox, prompts_out[e].flag_bbox,
      prompts_out[e].coords, prompts_out[e].flag_coords>>
\* the largest annotation count among the episodes' input tensors
InputMaxAnnotations ==
    Max({prompts_in[e].bbox.shape[2] : e \in {d \in Episodes : HasPrompts(d)}})

C15_ClassDimensionPlusOne ==
    PromptsCollated =>
        \A e \in Episodes : \A t \in 1..5 :
            OutputTensors(e)[t].shape[1] = Cardinality(DOMAIN new_classes) + 1

(***************************************************************************)
(* Padding neutrality                                                      *)
(***************************************************************************)
\* every box slot whose flag is False holds the zero value
NeutralBoxes(t, f) ==
    /\ f.shape = t.shape
    /\ \A c \in 1..Len(t.at) :
          /\ Len(f.at[c]) = Len(t.at[c])
          /\ \A a \in 1..Len(t.at[c]) : ~f.at[c][a] => t.at[c][a] = Zero
\* every point slot whose flag is False holds the zero value
NeutralPoints(t, f) ==
    /\ f.shape = t.shape
    /\ \A c \in 1..Len(t.at) :
          /\ Len(f.at[c]) = Len(t.at[c])
          /\ \A a \in 1..Len(t.at[c]) :
                /\ Len(f.at[c][a]) = Len(t.at[c][a])
                /\ \A p \in 1..Len(t.at[c][a]) :
                      ~f.at[c][a][p] => t.at[c][a][p] = Zero
InputsNeutral ==
    \A e \in Episodes : HasPrompts(e) =>
        /\ NeutralBoxes(prompts_in[e].bbox, prompts_in[e].flag_bbox)
        /\ NeutralPoints(prompts_in[e].coords, prompts_in[e].flag_coords)

\* C13: in the outputs of get_bboxes, pad_coords_image, pad_coords,
\* collate_bbox and collate_coords every slot whose flag is 0/False holds the
\* zero value, provided the inputs already satisfy this.
C13_PaddingNeutral ==
    /\ pad_out.fn = "get_bboxes" => NeutralBoxes(pad_out.data, pad_out.flag)
    /\ pad_out.fn \in {"pad_coords_image", "pad_coords"} =>
           NeutralPoints(pad_out.data, pad_out.flag)
    /\ (PromptsCollated /\ InputsNeutral) =>
           \A e \in Episodes :
               /\ NeutralBoxes(prompts_out[e].bbox, prompts_out[e].flag_bbox)
               /\ NeutralPoints(prompts_out[e].coords, prompts_out[e].flag_coords)

\* pad_coords has added padding rows to coordinates that hold real points,
\* padding points and a class without annotations
C13_Witness ==
    /\ pad_out.fn = "pad_coords"
    /\ pad_in.k >= 2
    /\ pad_out.data.shape[2] = MaxAnnotations + 1
    /\ \E i \in 1..Len(pad_in.counts) : pad_in.counts[i] = 0
    /\ \E i \in 1..Len(pad_in.counts) :
          /\ pad_in.counts[i] = MaxAnnotations
          /\ pad_out.flag.at[i][1][1]
          /\ pad_out.data.at[i][1][1] # Zero
          /\ \E p \in 1..pad_in.k : ~pad_out.flag.at[i][1][p]
          /\ ~pad_out.flag.at[i][MaxAnnotations + 1][1]

(***************************************************************************)
(* Properties of collate_gt                                                *)
(***************************************************************************)
\* C16: collate_gt remaps every pixel of an H x W ground-truth map, for any
\* H and W: a pixel with value 0 stays 0 and a pixel with local value k > 0
\* becomes new_classes[original_classes[k]]; no pixel is left with its old
\* value and no out-of-range access occurs.
C16_EveryPixelRemapped ==
    gt_out # <<>> =>
        \A e \in 1..Len(gt_in) :
            /\ gt_out[e].raised = "none"
            /\ \A i \in 1..Len(gt_in[e]) : \A j \in 1..Len(gt_in[e][i]) :
                  LET k == gt_in[e][i][j]
                  IN gt_out[e].tensor[i][j] =
                        IF k = 0 THEN 0 ELSE new_classes[classes_in[e][k]]

(***************************************************************************)
(* Properties of LabelAnythingDataset.collate_fn                           *)
(***************************************************************************)
FnReturned == fn_result.raised = "none"
\* the parts of the returned value ((data_dict, ground_truths), dataset_names)
\* that hold a mapping from class identifier to channel index
ReturnedClassMaps ==
    {k \in DOMAIN fn_result.data_dict : fn_result.data_dict[k].kind = "class_map"}
    \cup (IF fn_result.ground_truths.kind = "class_map" THEN {"ground_truths"} ELSE {})
    \cup (IF fn_result.dataset_names.kind = "class_map" THEN {"dataset_names"} ELSE {})

\* C17: the value returned by collate_fn contains the batch-wide class map
\* (global class identifier to channel index) built for that batch, so the
\* caller can decode channel indices back to class identifiers.
C17_ClassMapReturned ==
    FnReturned => ReturnedClassMaps # {}

\* C18: collate_fn called with an empty list of episodes raises an error
\* instead of returning a batch.
C18_EmptyBatchRejected ==
    (fn_result.raised \notin {"idle", "not called"} /\ Len(fn_in.items) = 0) =>
        /\ fn_result.raised = "ValueError"
        /\ DOMAIN fn_result = {"raised"}

C18_Witness ==
    /\ Len(fn_in.items) = 0
    /\ fn_result.raised = "ValueError"

(***************************************************************************)
(* Properties of add_noise                                                 *)
(***************************************************************************)
\* C19: add_noise does not raise for a 4-coordinate box and returns four
\* coordinates each of which differs from the input coordinate by an offset
\* of absolute value at most 20 (MAX_PIXELS_BBOX_NOISE), for every box size,
\* also for boxes whose 10%-of-side standard deviation exceeds 20.
C19_NoiseBounded ==
    noised # <<>> =>
        /\ Len(noised) = 4
        /\ \A c \in 1..4 : Abs(noised[c] - bbox_in[c]) <= MAX_PIXELS_BBOX_NOISE

\* a box whose sides give a standard deviation above the limit, perturbed by
\* the full limit in both directions
C19_Witness ==
    /\ noised # <<>>
    /\ Abs(bbox_in[1] - bbox_in[3]) > 10 * MAX_PIXELS_BBOX_NOISE
    /\ Abs(bbox_in[2] - bbox_in[4]) > 10 * MAX_PIXELS_BBOX_NOISE
    /\ noised[1] - bbox_in[1] = MAX_PIXELS_BBOX_NOISE
    /\ noised[3] - bbox_in[3] = -MAX_PIXELS_BBOX_NOISE

(***************************************************************************)
(* Properties of PascalDataset.__getitem__                                 *)
(***************************************************************************)
\* C20: in every item returned by PascalDataset.__getitem__ the class list
\* cat_ids has the background sentinel -1 at index 0 and the remaining
\* identifiers are pairwise distinct and strictly increasing, whether or not
\* all_example_categories is enabled.
C20_CatIdsSorted ==
    cat_ids # <<>> =>
        /\ cat_ids[1] = -1
        /\ \A i, j \in 2..Len(cat_ids) : i # j => cat_ids[i] # cat_ids[j]
        /\ \A i, j \in 2..Len(cat_ids) : i < j => cat_ids[i] < cat_ids[j]

\* an example with a category the query lacks, and a category both share
C20_Witness ==
    /\ cat_ids # <<>>
    /\ pascal_in.all_example_categories
    /\ Len(pascal_in.image_names) = 2
    /\ pascal_in.img2cat[2] \ pascal_in.img2cat[1] # {}
    /\ pascal_in.aux_cat_ids[1] \cap pascal_in.img2cat[2] # {}
    /\ Len(cat_ids) = 1 + MaxClassId

\* C21: in every item returned by PascalDataset.__getitem__, with load_gts
\* true and with load_gts false, every ground-truth pixel is 0 (background)
\* or the position k, 1 <= k < len(cat_ids), of the pixel's category in
\* cat_ids; it is never the raw category identifier.
C21_GroundTruthIsPosition ==
    cat_ids # <<>> =>
        \A j \in 1..Len(item_gts) : \A px \in 1..Len(item_gts[j]) :
            LET v == item_gts[j][px]
                raw == Seg(pascal_in.img2cat[pascal_in.image_names[j]])[px]
            IN v = 0 \/ (v \in 1..(Len(cat_ids) - 1) /\ cat_ids[v + 1] = raw)

(***************************************************************************)
(* Properties of generate_points_from_errors                               *)
(***************************************************************************)
PointsReturned == err_out.raised = "none"

ErrB == Len(err_in.prediction)

\* the (episode, class) pair has an error pixel
HasErrors(b, c) ==
    \E w \in 0..(ErrPixels - 1) : ErrorAt(err_in.ground_truth, err_in.prediction, b, c, w) # 0

\* C22: for a batch of B >= 2 episodes, every point returned at output
\* position [b, c, n] for a pair (b, c) with a non-empty error region is a
\* pixel where prediction and ground truth of episode b disagree on class c,
\* and its label is the error sign of that pixel.
C22_PointsUnderTheirPair ==
    (PointsReturned /\ ErrB >= 2) =>
        \A b \in 0..(ErrB - 1), c \in 0..(ErrClasses - 1) :
            (HasErrors(b, c) /\ b < Len(err_out.points)) =>
                \A k \in 1..err_in.num_points :
                    LET pt == err_out.points[b + 1][c + 1][k]
                        e == ErrorAt(err_in.ground_truth, err_in.prediction, b, c, pt[2])
                    IN /\ pt[1] = 0
                       /\ e # 0
                       /\ err_out.labels[b + 1][c + 1][k] = e

\* C23: for every num_points >= 1, generate_points_from_errors returns points
\* of shape B x C x num_points x 2 and labels of shape B x C x num_points, and
\* every (episode, class) pair without an error pixel gets num_points entries
\* with coordinate (0, 0) and label 0, also when only some pairs have no
\* error pixel.
C23_MissingPairsZero ==
    (err_in.num_points >= 1 /\ err_out.raised \notin {"idle", "not called"}) =>
        /\ PointsReturned
        /\ Len(err_out.points) = ErrB
        /\ Len(err_out.labels) = ErrB
        /\ \A b \in 1..ErrB :
             /\ Len(err_out.points[b]) = ErrClasses
             /\ Len(err_out.labels[b]) = ErrClasses
             /\ \A c \in 1..ErrClasses :
                  /\ Len(err_out.points[b][c]) = err_in.num_points
                  /\ Len(err_out.labels[b][c]) = err_in.num_points
                  /\ ~HasErrors(b - 1, c - 1) =>
                       \A k \in 1..err_in.num_points :
                          /\ err_out.points[b][c][k] = <<0, 0>>
                          /\ err_out.labels[b][c][k] = 0

(***************************************************************************)
(* Properties of Substitutor.generate_new_points and of the shared state   *)
(***************************************************************************)
\* C24: with substitute true, generate_new_points extends the annotation
\* dimension of prompt_points and flag_points by exactly num_points entries,
\* which hold the sampled error points in the slot of the image that was the
\* query of the step just yielded (position 0) and zero points with flag 0 in
\* every other slot, and leaves every other batch entry unchanged; with
\* substitute false it changes nothing.
C24_NewPointsInQuerySlot ==
    [][(~generated /\ generated') =>
          IF substitute
          THEN /\ DOMAIN batch' = DOMAIN batch
               /\ \A k \in DOMAIN batch :
                    IF k \in {"prompt_points", "flag_points"}
                    THEN /\ Len(batch'[k]) = Len(batch[k])
                         /\ \A j \in 1..Len(batch[k]) :
                              /\ batch'[k][j].slot = batch[k][j].slot
                              /\ batch'[k][j].extra =
                                   batch[k][j].extra \o
                                   [n \in 1..num_points |->
                                      IF j = 1 THEN ground_truths[1] + 1 ELSE 0]
                    ELSE batch'[k] = batch[k]
               /\ ground_truths' = ground_truths
          ELSE /\ batch' = batch
               /\ ground_truths' = ground_truths]_vars

\* C25: iterating a Substitutor changes no state shared between Substitutor
\* instances (the class attributes), so that what a Substitutor yields does
\* not depend on the __next__ calls made earlier in the process.
C25_NoSharedStateChanged ==
    [][torch_keys_to_exchange' = torch_keys_to_exchange]_vars

(***************************************************************************)
(* Properties of get_example_num_list and of its use                       *)
(***************************************************************************)
ListsReturned == "examples_nums" \in DOMAIN loader
\* the number of entries before the trailing remainder entry
FullEntries == loader.dataset_len \div Budget

\* C26: for every entry k that get_example_num_list produces other than the
\* trailing remainder entry, examples_nums[k] + 1 is a divisor greater than 1
\* of max_num_examples and batch_sizes[k] * (examples_nums[k] + 1) equals
\* batch_size * max_num_examples.
C26_DivisorEntries ==
    ListsReturned =>
        \A k \in 1..FullEntries :
            LET d == loader.examples_nums[k] + 1
            IN /\ d > 1
               /\ loader.max_num_examples % d = 0
               /\ loader.batch_sizes[k] * d = Budget

\* a list with a full entry whose divisor is not max_num_examples itself
C26_Witness ==
    /\ ListsReturned
    /\ FullEntries >= 1
    /\ loader.examples_nums[1] + 1 < loader.max_num_examples
    /\ loader.batch_sizes[1] > loader.batch_size

\* C28: with drop_last false, when the batch sizes sum to more than the
\* number of dataset indices, VariableBatchSampler.__iter__ yields the last
\* incomplete batch with the remaining indices and finishes; it never ends
\* with an exception because the index iterator is exhausted.
C28_IncompleteBatchYielded ==
    (sampler_state # "none" /\ ~drop_last) =>
        /\ sampler_state # "RuntimeError"
        /\ sampler_state = "done" =>
             SumOver(1..Len(sampled), [k \in 1..Len(sampled) |-> Len(sampled[k])])
               = Min(data_len,
                     SumOver(1..Len(batch_sizes), [k \in 1..Len(batch_sizes) |-> batch_sizes[k]]))

\* C29: in get_dataloaders the list passed to VariableBatchSampler as
\* batch_sizes is the batch-size list that get_example_num_list computed and
\* the list passed as num_examples is its example-count list.
C29_ListsNotSwapped ==
    (ListsReturned /\ sampler_state # "none") =>
        /\ batch_sizes = loader.batch_sizes
        /\ num_examples = loader.examples_nums

\* C30: for all dataset_len >= 0, batch_size >= 1 and max_num_examples >= 1,
\* get_example_num_list returns without error two lists of equal length in
\* which every batch size is at least 1 and every example count, the trailing
\* remainder entry included, lies between 1 and max_num_examples - 1.
C30_ListsWellFormed ==
    FromDataloaders =>
        /\ ListsReturned
        /\ Len(loader.examples_nums) = Len(loader.batch_sizes)
        /\ \A k \in 1..Len(loader.batch_sizes) : loader.batch_sizes[k] >= 1
        /\ \A k \in 1..Len(loader.examples_nums) :
             /\ loader.examples_nums[k] >= 1
             /\ loader.examples_nums[k] <= loader.max_num_examples - 1

(***************************************************************************)
(* Properties of DramTestDataset._extract_examples                         *)
(***************************************************************************)
\* C27: the prompt images returned by DramTestDataset._extract_examples cover
\* every category that has a support image: for each category in
\* example_cat2img at least one selected image shows it; a category without
\* support image is skipped without error.
C27_SupportedCategoriesCovered ==
    dram_out.called =>
        /\ dram_out.prompt_images \subseteq 0..(Len(dram_in.example_gts) - 1)
        /\ \A c \in DOMAIN get_support_dict(dram_in.example_gts).cat2img :
             \E img \in dram_out.prompt_images : c \in dram_in.example_gts[img + 1]

\* a category only the image with fewer categories shows, and a category
\* without any support image
C27_Witness ==
    /\ dram_out.called
    /\ Len(dram_in.example_gts) = 2
    /\ Cardinality(dram_in.example_gts[1]) < Cardinality(dram_in.example_gts[2])
    /\ dram_in.example_gts[1] \ dram_in.example_gts[2] # {}
    /\ UNION Range(dram_in.example_gts) # 0..(DramCategories - 1)
    /\ Cardinality(dram_out.prompt_images) = 2

====
